---- MODULE Spec2Model ----
(***************************************************************************)
(* SSOQL: the parser (Parser), the executor (Executor) and the query       *)
(* facade (SSOQL.createQuery) as one state machine.  A run takes a token   *)
(* sequence and a data tree, parses the tokens into a ProgramNode one loop *)
(* iteration at a time, and then executes the program one operation at a   *)
(* time, once or twice over the same compiled query.                       *)
(***************************************************************************)
EXTENDS Integers, Sequences, FiniteSets, TLC

(***************************************************************************)
(* Bounds                                                                  *)
(***************************************************************************)
MaxExecutions == 2

(***************************************************************************)
(* JavaScript values.  Numbers are rationals n/d in lowest terms, d > 0.   *)
(***************************************************************************)
Num(n) == [t |-> "num", n |-> n, d |-> 1]
Str(s) == [t |-> "str", s |-> s]
Bool(b) == [t |-> "bool", b |-> b]
Null == [t |-> "null"]
Undefined == [t |-> "undef"]
NaN == [t |-> "nan"]
Arr(a) == [t |-> "arr", a |-> a]
\* an object: its own keys in insertion order, and the value of each key
Obj(keys, o) == [t |-> "obj", keys |-> keys, o |-> o]
\* the text JSON.stringify produces for v
JsonString(v) == [t |-> "str", json |-> v]

Abs(x) == IF x < 0 THEN 0 - x ELSE x

RECURSIVE Gcd(_, _)
Gcd(a, b) == IF b = 0 THEN a ELSE Gcd(b, a % b)

Rat(n, d) ==
    LET g == Gcd(Abs(n), Abs(d))
        s == IF d < 0 THEN 0 - 1 ELSE 1
    IN [t |-> "num", n |-> s * (n \div g), d |-> s * (d \div g)]

\* typeof v === "object" (null included, as in JavaScript)
TypeofObject(v) == v.t \in {"obj", "arr", "null"}

\* item[field] on any value
Get(v, field) ==
    IF v.t = "obj"
    THEN IF \E i \in DOMAIN v.keys : v.keys[i] = field THEN v.o[field] ELSE Undefined
    ELSE IF v.t = "arr" /\ field = "length" THEN Num(Len(v.a))
    ELSE Undefined

\* !v
Falsy(v) ==
    \/ v.t \in {"undef", "null", "nan"}
    \/ v.t = "bool" /\ ~v.b
    \/ v.t = "num" /\ v.n = 0
    \/ v = Str("")

(***************************************************************************)
(* Tokens                                                                  *)
(***************************************************************************)
Tok(type, value) == [type |-> type, value |-> value, line |-> 1]
KW(type) == Tok(type, type)
Ident(name) == Tok("IDENTIFIER", name)
Var(name) == Tok("VARIABLE", name)
StrLit(s) == Tok("STRING", s)
\* the lexeme of a NUMBER token is its sequence of characters
NumLit(chars) == Tok("NUMBER", chars)
EOF == Tok("EOF", "")

\* the names the model writes variables with: the strings that start with "$"
StartsWithDollar(s) == s \in {"$t", "$n", "$m", "$a", "$b", "$q"}

DigitValue(c) ==
    CASE c = "0" -> 0 [] c = "1" -> 1 [] c = "2" -> 2 [] c = "3" -> 3
      [] c = "4" -> 4 [] c = "5" -> 5 [] c = "6" -> 6 [] c = "7" -> 7
      [] c = "8" -> 8 [] c = "9" -> 9

RECURSIVE ParseDigits(_, _, _, _, _)
\* the digits read so far as the fraction n/d; frac: the "." has been read
ParseDigits(chars, i, n, d, frac) ==
    IF i > Len(chars) THEN Rat(n, d)
    ELSE IF chars[i] = "." THEN ParseDigits(chars, i + 1, n, d, TRUE)
    ELSE ParseDigits(chars, i + 1, 10 * n + DigitValue(chars[i]),
                     IF frac THEN 10 * d ELSE d, frac)

\* parseFloat on the lexeme of a NUMBER token
ParseFloat(chars) == ParseDigits(chars, 1, 0, 1, FALSE)

(***************************************************************************)
(* Tokenizer                                                               *)
(***************************************************************************)
\* Tokenizer.tokenize on a source text given as its sequence of characters:
\* the tokens, whose values are sequences of characters too. Positions are
\* those of the code (0-based); a token's line is this.line when it is added.
tokenize(source) ==
    LET isAtEnd(cur) == cur >= Len(source)
        peek(cur) == IF isAtEnd(cur) THEN "NUL" ELSE source[cur + 1]
        peekNext(cur) == IF cur + 1 >= Len(source) THEN "NUL" ELSE source[cur + 2]
        isDigit(c) == c \in {"0", "1", "2", "3", "4", "5", "6", "7", "8", "9"}
        \* the letters the model's source texts are written with
        isAlpha(c) == c \in {"a", "b", "c", "p", "q", "E", "S", "U", "M", "_"}
        isAlphaNumeric(c) == isAlpha(c) \/ isDigit(c)
        \* this.line once the characters before cur have been advanced over
        line(cur) == 1 + Cardinality({i \in 1..cur : source[i] = "\n"})
        substring(start, end) == SubSeq(source, start + 1, end)
        \* addToken(type, value) at this.current = cur: the scan's outcome
        addToken(type, value, cur) ==
            [added |-> <<[type |-> type, value |-> value, line |-> line(cur)]>>,
             cur |-> cur]
        lexeme(type, start, cur) == addToken(type, substring(start, cur), cur)
        nothing(cur) == [added |-> <<>>, cur |-> cur]
        RECURSIVE untilQuote(_, _), untilNewline(_), whileDigit(_), whileAlphaNumeric(_)
        untilQuote(cur, quote) ==
            IF peek(cur) # quote /\ ~isAtEnd(cur) THEN untilQuote(cur + 1, quote) ELSE cur
        untilNewline(cur) ==
            IF peek(cur) # "\n" /\ ~isAtEnd(cur) THEN untilNewline(cur + 1) ELSE cur
        whileDigit(cur) == IF isDigit(peek(cur)) THEN whileDigit(cur + 1) ELSE cur
        whileAlphaNumeric(cur) ==
            IF isAlphaNumeric(peek(cur)) THEN whileAlphaNumeric(cur + 1) ELSE cur
        \* string(quote), the cursor being at the end of its loop
        string(start, cur) ==
            IF isAtEnd(cur) THEN lexeme("UNKNOWN", start, cur)
            ELSE addToken("STRING", substring(start + 1, cur), cur + 1)
        \* number(), the cursor being after the integer part
        number(start, cur) ==
            IF peek(cur) = "." /\ isDigit(peekNext(cur))
            THEN lexeme("NUMBER", start, whileDigit(cur + 1))
            ELSE lexeme("NUMBER", start, cur)
        \* identifier(), the cursor being after the name; of the keywords, the
        \* ones the letters of isAlpha can spell
        identifier(start, cur) ==
            LET text == substring(start, cur) IN
            CASE text = <<"U", "S", "E">> -> lexeme("USE", start, cur)
              [] text = <<"S", "U", "M">> -> lexeme("SUM", start, cur)
              [] OTHER -> lexeme("IDENTIFIER", start, cur)
        \* scanToken() with this.start = start; cur is the cursor after advance()
        scanToken(c, start, cur) ==
            CASE c = "(" -> lexeme("LEFT_PAREN", start, cur)
              [] c = ")" -> lexeme("RIGHT_PAREN", start, cur)
              [] c = "[" -> lexeme("LEFT_BRACKET", start, cur)
              [] c = "]" -> lexeme("RIGHT_BRACKET", start, cur)
              [] c = "," -> lexeme("COMMA", start, cur)
              [] c = "." -> lexeme("DOT", start, cur)
              [] c = "*" -> lexeme("ASTERISK", start, cur)
              [] c = "&" -> lexeme("AMPERSAND", start, cur)
              [] c = "|" -> lexeme("PIPE", start, cur)
              [] c = "=" -> lexeme("EQUALS", start, cur)
              [] c = "!" -> IF peek(cur) = "=" THEN lexeme("NOT_EQUALS", start, cur + 1)
                            ELSE lexeme("NOT", start, cur)
              [] c = ">" -> IF peek(cur) = "="
                            THEN lexeme("GREATER_THAN_EQUALS", start, cur + 1)
                            ELSE lexeme("GREATER_THAN", start, cur)
              [] c = "<" -> IF peek(cur) = "="
                            THEN lexeme("LESS_THAN_EQUALS", start, cur + 1)
                            ELSE lexeme("LESS_THAN", start, cur)
              [] c \in {" ", "\r", "\t", "\n"} -> nothing(cur)
              [] c \in {"\"", "'"} -> string(start, untilQuote(cur, c))
              [] c = "/" -> IF peek(cur) = "/"
                            THEN lexeme("COMMENT", start, untilNewline(cur + 1))
                            ELSE addToken("UNKNOWN", <<c>>, cur)
              [] c = "$" -> lexeme("VARIABLE", start, whileAlphaNumeric(cur))
              [] isDigit(c) -> number(start, whileDigit(cur))
              [] isAlpha(c) -> identifier(start, whileAlphaNumeric(cur))
              [] OTHER -> addToken("UNKNOWN", <<c>>, cur)
        \* the while (!isAtEnd()) loop, then the push of EOF
        RECURSIVE scan(_)
        scan(start) ==
            LET Rest(scanned) == scanned.added \o scan(scanned.cur) IN
            IF isAtEnd(start)
            THEN <<[type |-> "EOF", value |-> <<>>, line |-> line(start)]>>
            ELSE Rest(scanToken(source[start + 1], start, start + 1))
    IN scan(0)

(***************************************************************************)
(* Parser: cursor primitives                                               *)
(***************************************************************************)
Peek(toks, cur) == toks[cur]

IsAtEnd(toks, cur) == Peek(toks, cur).type = "EOF"

Check(toks, cur, type) ==
    IF IsAtEnd(toks, cur) THEN FALSE ELSE Peek(toks, cur).type = type

\* the cursor after advance()
Advance(toks, cur) == IF ~IsAtEnd(toks, cur) THEN cur + 1 ELSE cur

\* the cursor after match(type)
Match(toks, cur, type) == IF Check(toks, cur, type) THEN Advance(toks, cur) ELSE cur

\* a sub-parser returns a node and the cursor after it, or throws
Ok(node, cur) == [err |-> FALSE, node |-> node, cur |-> cur]
Throw(toks, cur, message) ==
    [err |-> TRUE, line |-> Peek(toks, cur).line, message |-> message, cur |-> cur]

\* consume(type, message): the token consumed, or the error
Consume(toks, cur, type, message) ==
    IF Check(toks, cur, type) THEN Ok(Peek(toks, cur), Advance(toks, cur))
    ELSE Throw(toks, cur, message)

(***************************************************************************)
(* Parser: field lists and USE paths                                       *)
(***************************************************************************)
RECURSIVE FieldListLoop(_, _, _)
\* the do ... while (match(COMMA)) loop of parseFieldList
FieldListLoop(toks, cur, fields) ==
    LET c == Consume(toks, cur, "IDENTIFIER", "Expected field name") IN
    IF c.err THEN c
    ELSE IF Check(toks, c.cur, "COMMA")
         THEN FieldListLoop(toks, Advance(toks, c.cur), Append(fields, c.node.value))
         ELSE Ok(Append(fields, c.node.value), c.cur)

parseFieldList(toks, cur) ==
    IF ~Check(toks, cur, "RIGHT_BRACKET") THEN FieldListLoop(toks, cur, <<>>)
    ELSE Ok(<<>>, cur)

RECURSIVE Join(_)
\* pathComponents.join("."): the text as its pieces, separators included
Join(components) ==
    IF Len(components) = 0 THEN <<>>
    ELSE IF Len(components) = 1 THEN <<components[1]>>
    ELSE <<components[1], ".">> \o Join(Tail(components))

RECURSIVE Split(_)
\* path.split("."): the pieces between the separators
Split(text) ==
    IF Len(text) = 0 THEN <<>>
    ELSE IF text[1] = "." THEN Split(Tail(text))
    ELSE <<text[1]>> \o Split(Tail(text))

\* fields is meaningful only when hasFields (the field is undefined otherwise)
UsePathNode(components, hasFields, fields) ==
    [type |-> "UsePath", path |-> Join(components),
     hasFields |-> hasFields, fields |-> fields]

RECURSIVE UsePathLoop(_, _, _)
\* the while (match(DOT)) loop of parseUsePath
UsePathLoop(toks, cur, components) ==
    IF ~Check(toks, cur, "DOT") THEN Ok(UsePathNode(components, FALSE, <<>>), cur)
    ELSE LET c1 == Advance(toks, cur) IN
         IF Check(toks, c1, "LEFT_BRACKET")
         THEN LET fl == parseFieldList(toks, Advance(toks, c1)) IN
              IF fl.err THEN fl
              ELSE LET rb == Consume(toks, fl.cur, "RIGHT_BRACKET",
                                     "Expected closing ']' after fields") IN
                   IF rb.err THEN rb
                   ELSE Ok(UsePathNode(components, TRUE, fl.node), rb.cur)
         ELSE IF Check(toks, c1, "IDENTIFIER")
         THEN UsePathLoop(toks, Advance(toks, c1), Append(components, Peek(toks, c1).value))
         ELSE Throw(toks, c1, "Expected identifier or fields in USE path")

parseUsePath(toks, cur) ==
    IF Check(toks, cur, "IDENTIFIER")
    THEN UsePathLoop(toks, Advance(toks, cur), <<Peek(toks, cur).value>>)
    ELSE Throw(toks, cur, "Expected identifier in USE path")

(***************************************************************************)
(* Parser: WHERE conditions                                                *)
(***************************************************************************)
parseValue(toks, cur) ==
    LET tk == Peek(toks, cur) IN
    IF Check(toks, cur, "STRING") THEN Ok(Str(tk.value), Advance(toks, cur))
    ELSE IF Check(toks, cur, "NUMBER") THEN Ok(ParseFloat(tk.value), Advance(toks, cur))
    ELSE IF Check(toks, cur, "BOOLEAN") THEN Ok(Bool(tk.value = "true"), Advance(toks, cur))
    ELSE IF Check(toks, cur, "NULL") THEN Ok(Null, Advance(toks, cur))
    ELSE IF Check(toks, cur, "VARIABLE") THEN Ok(Str(tk.value), Advance(toks, cur))
    ELSE Throw(toks, cur, "Expected value in condition")

\* token type of a comparison operator -> OperatorType
ComparisonOperator(type) ==
    CASE type = "EQUALS" -> "="
      [] type = "NOT_EQUALS" -> "!="
      [] type = "GREATER_THAN" -> ">"
      [] type = "LESS_THAN" -> "<"
      [] type = "GREATER_THAN_EQUALS" -> ">="
      [] type = "LESS_THAN_EQUALS" -> "<="
      [] type = "CONTAINS" -> "CONTAINS"
      [] type = "NOT_CONTAINS" -> "NOT_CONTAINS"

ComparisonTokens ==
    {"EQUALS", "NOT_EQUALS", "GREATER_THAN", "LESS_THAN", "GREATER_THAN_EQUALS",
     "LESS_THAN_EQUALS", "CONTAINS", "NOT_CONTAINS"}

RECURSIVE parseCondition(_, _)
RECURSIVE parseLogicalOr(_, _)
RECURSIVE LogicalOrLoop(_, _, _)
RECURSIVE parseLogicalAnd(_, _)
RECURSIVE LogicalAndLoop(_, _, _)
RECURSIVE parseUnary(_, _)
RECURSIVE parsePrimary(_, _)

parseCondition(toks, cur) == parseLogicalOr(toks, cur)

parseLogicalOr(toks, cur) ==
    LET Rest(l) == IF l.err THEN l ELSE LogicalOrLoop(toks, l.cur, l.node)
    IN Rest(parseLogicalAnd(toks, cur))

\* the while (match(PIPE)) loop of parseLogicalOr
LogicalOrLoop(toks, cur, expr) ==
    LET Rest(r) ==
            IF r.err THEN r
            ELSE LogicalOrLoop(toks, r.cur,
                     [type |-> "BinaryCondition", operator |-> "|",
                      left |-> expr, right |-> r.node])
    IN IF ~Check(toks, cur, "PIPE") THEN Ok(expr, cur)
       ELSE Rest(parseLogicalAnd(toks, Advance(toks, cur)))

parseLogicalAnd(toks, cur) ==
    LET Rest(l) == IF l.err THEN l ELSE LogicalAndLoop(toks, l.cur, l.node)
    IN Rest(parseUnary(toks, cur))

\* the while (match(AMPERSAND)) loop of parseLogicalAnd
LogicalAndLoop(toks, cur, expr) ==
    LET Rest(r) ==
            IF r.err THEN r
            ELSE LogicalAndLoop(toks, r.cur,
                     [type |-> "BinaryCondition", operator |-> "&",
                      left |-> expr, right |-> r.node])
    IN IF ~Check(toks, cur, "AMPERSAND") THEN Ok(expr, cur)
       ELSE Rest(parseUnary(toks, Advance(toks, cur)))

\* parseUnary with `!` taking a whole conjunction as its operand
parseUnaryOfConjunction(toks, cur) ==
    LET Negated(c) ==
            IF c.err THEN c
            ELSE Ok([type |-> "UnaryCondition", operator |-> "!", condition |-> c.node],
                    c.cur)
    IN IF Check(toks, cur, "NOT") THEN Negated(parseLogicalAnd(toks, Advance(toks, cur)))
       ELSE parsePrimary(toks, cur)

parseUnary(toks, cur) ==
    LET Negated(c) ==
            IF c.err THEN c
            ELSE Ok([type |-> "UnaryCondition", operator |-> "!", condition |-> c.node],
                    c.cur)
    IN IF Check(toks, cur, "NOT") THEN Negated(parseUnary(toks, Advance(toks, cur)))
       ELSE parsePrimary(toks, cur)

parsePrimary(toks, cur) ==
    LET Closed(e, rp) == IF rp.err THEN rp ELSE Ok(e.node, rp.cur)
        Grouped(e) ==
            IF e.err THEN e
            ELSE Closed(e, Consume(toks, e.cur, "RIGHT_PAREN",
                                   "Expected ')' after expression"))
        Compared(f, v) ==
            IF v.err THEN v
            ELSE Ok([type |-> "ComparisonCondition", field |-> f.node.value,
                     operator |-> ComparisonOperator(Peek(toks, f.cur).type),
                     value |-> v.node], v.cur)
        Comparison(f) ==
            IF f.err THEN f
            ELSE IF ~(\E ty \in ComparisonTokens : Check(toks, f.cur, ty))
            THEN Throw(toks, f.cur, "Expected operator in condition")
            ELSE Compared(f, parseValue(toks, Advance(toks, f.cur)))
    IN IF Check(toks, cur, "LEFT_PAREN")
       THEN Grouped(parseCondition(toks, Advance(toks, cur)))
       ELSE Comparison(Consume(toks, cur, "IDENTIFIER",
                               "Expected field name in condition"))

(***************************************************************************)
(* Parser: operations                                                      *)
(***************************************************************************)
\* SelectOperationNode.fields = "*"; no identifier is spelled "*"
Star == <<"*">>
\* SelectOperationNode.conditions left undefined
NoConditions == [type |-> "undefined"]

SelectNode(fields, conditions, each) ==
    [type |-> "SelectOperation", fields |-> fields, conditions |-> conditions,
     each |-> each]

\* the optional WHERE ( condition ) clause: the conditions and the cursor after
parseWhere(toks, cur) ==
    LET Closed(c, rp) == IF rp.err THEN rp ELSE Ok(c.node, rp.cur)
        Conditions(c) ==
            IF c.err THEN c
            ELSE Closed(c, Consume(toks, c.cur, "RIGHT_PAREN",
                                   "Expected ')' after WHERE conditions"))
        Opened(lp) == IF lp.err THEN lp ELSE Conditions(parseCondition(toks, lp.cur))
    IN IF ~Check(toks, cur, "WHERE") THEN Ok(NoConditions, cur)
       ELSE Opened(Consume(toks, Advance(toks, cur), "LEFT_PAREN",
                           "Expected '(' after WHERE"))

\* the field specification of parseSelectOperation
parseSelectFields(toks, cur) ==
    IF Check(toks, cur, "ASTERISK") THEN Ok(Star, Advance(toks, cur))
    ELSE IF Check(toks, cur, "LEFT_BRACKET")
    THEN LET fl == parseFieldList(toks, Advance(toks, cur)) IN
         IF fl.err THEN fl
         ELSE LET rb == Consume(toks, fl.cur, "RIGHT_BRACKET",
                                "Expected closing ']' after fields") IN
              IF rb.err THEN rb ELSE Ok(fl.node, rb.cur)
    ELSE IF Check(toks, cur, "IDENTIFIER")
    THEN Ok(<<Peek(toks, cur).value>>, Advance(toks, cur))
    ELSE Ok(Star, cur)

parseSelectOperation(toks, cur) ==
    LET each == Check(toks, cur, "EACH")
        Filtered(f, w) ==
            IF w.err THEN w ELSE Ok(SelectNode(f.node, w.node, each), w.cur)
        Fields(f) == IF f.err THEN f ELSE Filtered(f, parseWhere(toks, f.cur))
    IN Fields(parseSelectFields(toks, Match(toks, cur, "EACH")))

\* the select both parseCountOperation and parsePercentOfOperation build when
\* the next token is SELECT: fields "*" and the WHERE clause if it follows
parseBareSelect(toks, cur) ==
    LET Filtered(w) == IF w.err THEN w ELSE Ok(SelectNode(Star, w.node, FALSE), w.cur)
    IN Filtered(parseWhere(toks, Advance(toks, cur)))

parseCountOperation(toks, cur) ==
    LET Counting(s) ==
            IF s.err THEN s
            ELSE Ok([type |-> "CountOperation", selectOperation |-> s.node], s.cur)
    IN Counting(IF Check(toks, cur, "SELECT") THEN parseBareSelect(toks, cur)
                ELSE parseSelectOperation(toks, cur))

\* the look-ahead of parsePercentOfOperation: a COMMA directly followed by SELECT
SelectIsNext(toks, cur) ==
    \E i \in cur..Len(toks) :
        /\ toks[i].type = "COMMA"
        /\ i + 1 <= Len(toks)
        /\ toks[i + 1].type = "SELECT"

parsePercentOfOperation(toks, cur) ==
    LET Select(c) == IF Check(toks, c, "SELECT") THEN parseBareSelect(toks, c)
                     ELSE parseSelectOperation(toks, c)
        Both(num, den) ==
            IF den.err THEN den
            ELSE Ok([type |-> "PercentOfOperation", numerator |-> num.node,
                     denominator |-> den.node], den.cur)
        Numerator(num) ==
            IF num.err THEN num
            ELSE Both(num, Select(IF SelectIsNext(toks, cur)
                                  THEN Match(toks, num.cur, "COMMA")
                                  ELSE num.cur))
    IN Numerator(Select(cur))

\* token type of an operator that takes no operand -> the node type it parses to
AggregateNodeType(type) ==
    CASE type = "SUM" -> "SumOperation"
      [] type = "AVERAGE" -> "AverageOperation"
      [] type = "MEDIAN" -> "MedianOperation"
      [] type = "MIN" -> "MinOperation"
      [] type = "MAX" -> "MaxOperation"
      [] type = "MOST_FREQUENT" -> "MostFrequentOperation"
      [] type = "LEAST_FREQUENT" -> "LeastFrequentOperation"
      [] type = "UNIQUE" -> "UniqueOperation"
      [] type = "STANDARD_DEVIATION" -> "StandardDeviationOperation"
      [] type = "VARIANCE" -> "VarianceOperation"
      [] type = "RANGE" -> "RangeOperation"

AggregateTokens ==
    {"SUM", "AVERAGE", "MEDIAN", "MIN", "MAX", "MOST_FREQUENT", "LEAST_FREQUENT",
     "UNIQUE", "STANDARD_DEVIATION", "VARIANCE", "RANGE"}

\* parseSumOperation, parseAverageOperation, ...: the node, no token consumed
parseAggregateOperation(toks, cur, type) == Ok([type |-> AggregateNodeType(type)], cur)

ArithmeticTokens == {"DIVIDE", "MULTIPLY", "SUBTRACT"}

\* parseDivideOperation, parseMultiplyOperation, parseSubtractOperation
parseArithmeticOperation(toks, cur, type) ==
    LET names == CASE type = "DIVIDE" -> <<"dividend", "divisor">>
                   [] type = "MULTIPLY" -> <<"first factor", "second factor">>
                   [] type = "SUBTRACT" -> <<"minuend", "subtrahend">>
        a == Consume(toks, cur, "VARIABLE", <<"Expected variable as", names[1]>>)
    IN IF a.err THEN a
       ELSE LET b == Consume(toks, a.cur, "VARIABLE", <<"Expected variable as", names[2]>>)
            IN IF b.err THEN b
               ELSE Ok(CASE type = "DIVIDE" ->
                              [type |-> "DivideOperation", dividend |-> a.node.value,
                               divisor |-> b.node.value]
                         [] type = "MULTIPLY" ->
                              [type |-> "MultiplyOperation", factor1 |-> a.node.value,
                               factor2 |-> b.node.value]
                         [] type = "SUBTRACT" ->
                              [type |-> "SubtractOperation", minuend |-> a.node.value,
                               subtrahend |-> b.node.value],
                       b.cur)

\* the operation kinds parseVariableAssignment accepts after the variable
AssignableTokens == AggregateTokens \cup {"COUNT", "SELECT"}

parseVariableAssignment(toks, cur) ==
    LET Operation(c, ty) ==
            IF ty = "COUNT" THEN parseCountOperation(toks, c)
            ELSE IF ty = "SELECT" THEN parseSelectOperation(toks, c)
            ELSE parseAggregateOperation(toks, c, ty)
        Assigned(v, op) ==
            IF op.err THEN op
            ELSE Ok([type |-> "VariableAssignment", name |-> v.node.value,
                     operation |-> op.node], op.cur)
        Named(v) ==
            IF v.err THEN v
            ELSE IF ~(\E a \in AssignableTokens : Check(toks, v.cur, a))
            THEN Throw(toks, v.cur, "Expected operation after variable assignment")
            ELSE Assigned(v, Operation(Advance(toks, v.cur), Peek(toks, v.cur).type))
    IN Named(Consume(toks, cur, "VARIABLE", "Expected variable name"))

(***************************************************************************)
(* Executor: JavaScript coercions and arithmetic                           *)
(***************************************************************************)
\* the strings of the model that Number() reads as a number, with that number
NumericText == [s \in {"", "0", "5", "10", "20"} |->
                  CASE s = "" -> 0 [] s = "0" -> 0 [] s = "5" -> 5
                    [] s = "10" -> 10 [] s = "20" -> 20]

\* every plain string of the model in the order "<" gives strings
TextOrder == <<"", "$a", "$b", "$m", "$n", "$q", "$t", "0", "10", "20", "5",
               "A", "B", "C", "N", "P", "R", "Y">>

TextIndex(s) == IF \E i \in DOMAIN TextOrder : TextOrder[i] = s
                THEN CHOOSE i \in DOMAIN TextOrder : TextOrder[i] = s
                ELSE Len(TextOrder) + 1

Infinity == [t |-> "inf", sign |-> 1]
NegInfinity == [t |-> "inf", sign |-> 0 - 1]

\* Number(v)
ToNumber(v) ==
    CASE v.t = "num" -> v
      [] v.t = "inf" -> v
      [] v.t = "bool" -> IF v.b THEN Num(1) ELSE Num(0)
      [] v.t = "null" -> Num(0)
      [] v.t = "str" ->
            IF "s" \in DOMAIN v /\ v.s \in DOMAIN NumericText
            THEN Num(NumericText[v.s]) ELSE NaN
      [] v.t = "arr" -> IF Len(v.a) = 0 THEN Num(0) ELSE NaN
      [] OTHER -> NaN

\* isNaN(v) for a value Number() produced
IsNaN(v) == v.t = "nan"

\* String(v)
ToText(v) ==
    CASE v.t = "str" -> v
      [] v.t = "bool" -> IF v.b THEN Str("true") ELSE Str("false")
      [] v.t = "null" -> Str("null")
      [] v.t = "undef" -> Str("undefined")
      [] v.t = "num" ->
            IF v.d = 1 /\ \E s \in DOMAIN NumericText \ {""} : NumericText[s] = v.n
            THEN Str(CHOOSE s \in DOMAIN NumericText \ {""} : NumericText[s] = v.n)
            ELSE [t |-> "str", text |-> v]
      [] OTHER -> [t |-> "str", text |-> v]

JsAdd(a, b) ==
    IF a.t = "num" /\ b.t = "num" THEN Rat(a.n * b.d + b.n * a.d, a.d * b.d)
    ELSE NaN

JsSubtract(a, b) ==
    LET x == ToNumber(a)
        y == ToNumber(b)
    IN IF x.t = "num" /\ y.t = "num" THEN Rat(x.n * y.d - y.n * x.d, x.d * y.d)
       ELSE NaN

JsMultiply(a, b) ==
    LET x == ToNumber(a)
        y == ToNumber(b)
    IN IF x.t = "num" /\ y.t = "num" THEN Rat(x.n * y.n, x.d * y.d)
       ELSE NaN

JsDivide(a, b) ==
    LET x == ToNumber(a)
        y == ToNumber(b)
    IN IF x.t # "num" \/ y.t # "num" THEN NaN
       ELSE IF y.n = 0
            THEN (IF x.n = 0 THEN NaN ELSE IF x.n > 0 THEN Infinity ELSE NegInfinity)
            ELSE Rat(x.n * y.d, x.d * y.n)

\* a == b
LooseEquals(a, b) ==
    CASE a.t \in {"null", "undef"} \/ b.t \in {"null", "undef"} ->
            a.t \in {"null", "undef"} /\ b.t \in {"null", "undef"}
      [] a.t \in {"obj", "arr"} /\ b.t \in {"obj", "arr"} -> FALSE
      [] a.t = b.t -> a.t # "nan" /\ a = b
      [] a.t \in {"obj", "arr"} \/ b.t \in {"obj", "arr"} ->
            ToText(a) = ToText(b)
      [] OTHER -> ToNumber(a).t = "num" /\ ToNumber(a) = ToNumber(b)

\* a < b
LessThan(a, b) ==
    IF a.t = "str" /\ b.t = "str" /\ "s" \in DOMAIN a /\ "s" \in DOMAIN b
    THEN TextIndex(a.s) < TextIndex(b.s)
    ELSE LET x == ToNumber(a)
             y == ToNumber(b)
         IN x.t = "num" /\ y.t = "num" /\ x.n * y.d < y.n * x.d

\* a <= b
LessOrEqual(a, b) ==
    IF a.t = "str" /\ b.t = "str" /\ "s" \in DOMAIN a /\ "s" \in DOMAIN b
    THEN TextIndex(a.s) <= TextIndex(b.s)
    ELSE LET x == ToNumber(a)
             y == ToNumber(b)
         IN x.t = "num" /\ y.t = "num" /\ x.n * y.d <= y.n * x.d

(***************************************************************************)
(* Executor: variables and conditions                                      *)
(***************************************************************************)
\* Map.set(name, value)
MapSet(map, name, value) == (name :> value) @@ map

EmptyMap == <<>>

\* an evaluation returns a value or throws
Value(v) == [err |-> FALSE, value |-> v]
Raise(message) == [err |-> TRUE, message |-> message]

getVariableValue(variableName, variables) ==
    IF variableName \notin DOMAIN variables
    THEN Raise(<<"Variable not found", variableName>>)
    ELSE Value(variables[variableName])

\* evaluateComparison with NOT_CONTAINS as "Array.isArray(actualValue) &&
\* !actualValue.some(...)": false on a field that holds no array
evaluateComparisonOfArrays(condition, item, variables) ==
    LET actualValue == Get(item, condition.field)
        value == condition.value
        operator == condition.operator
        Some(compareValue) ==
            actualValue.t = "arr" /\
                \E i \in DOMAIN actualValue.a :
                    ToText(actualValue.a[i]) = ToText(compareValue)
        Compare(compareValue) ==
            CASE operator = "=" -> LooseEquals(actualValue, compareValue)
              [] operator = "!=" -> ~LooseEquals(actualValue, compareValue)
              [] operator = ">" ->
                   compareValue.t # "null" /\ LessThan(compareValue, actualValue)
              [] operator = "<" ->
                   compareValue.t # "null" /\ LessThan(actualValue, compareValue)
              [] operator = ">=" ->
                   compareValue.t # "null" /\ LessOrEqual(compareValue, actualValue)
              [] operator = "<=" ->
                   compareValue.t # "null" /\ LessOrEqual(actualValue, compareValue)
              [] operator = "CONTAINS" -> Some(compareValue)
              [] operator = "NOT_CONTAINS" ->
                   actualValue.t = "arr" /\ ~Some(compareValue)
        Resolved(r) == IF r.err THEN r ELSE Value(Compare(r.value))
    IN Resolved(IF value.t = "str" /\ "s" \in DOMAIN value /\ StartsWithDollar(value.s)
                THEN getVariableValue(value.s, variables)
                ELSE Value(value))

evaluateComparison(condition, item, variables) ==
    LET actualValue == Get(item, condition.field)
        value == condition.value
        operator == condition.operator
        Some(compareValue) ==
            actualValue.t = "arr" /\
                \E i \in DOMAIN actualValue.a :
                    ToText(actualValue.a[i]) = ToText(compareValue)
        Compare(compareValue) ==
            CASE operator = "=" -> LooseEquals(actualValue, compareValue)
              [] operator = "!=" -> ~LooseEquals(actualValue, compareValue)
              [] operator = ">" ->
                   compareValue.t # "null" /\ LessThan(compareValue, actualValue)
              [] operator = "<" ->
                   compareValue.t # "null" /\ LessThan(actualValue, compareValue)
              [] operator = ">=" ->
                   compareValue.t # "null" /\ LessOrEqual(compareValue, actualValue)
              [] operator = "<=" ->
                   compareValue.t # "null" /\ LessOrEqual(actualValue, compareValue)
              [] operator = "CONTAINS" -> Some(compareValue)
              [] operator = "NOT_CONTAINS" -> ~Some(compareValue)
        Resolved(r) == IF r.err THEN r ELSE Value(Compare(r.value))
    IN Resolved(IF value.t = "str" /\ "s" \in DOMAIN value /\ StartsWithDollar(value.s)
                THEN getVariableValue(value.s, variables)
                ELSE Value(value))

RECURSIVE evaluateCondition(_, _, _)
evaluateCondition(condition, item, variables) ==
    LET Binary(l) ==
            IF l.err THEN l
            ELSE IF condition.operator = "&"
                 THEN (IF ~l.value THEN l
                       ELSE evaluateCondition(condition.right, item, variables))
                 ELSE (IF l.value THEN l
                       ELSE evaluateCondition(condition.right, item, variables))
        Unary(c) == IF c.err THEN c ELSE Value(~c.value)
    IN CASE condition.type = "BinaryCondition" ->
               Binary(evaluateCondition(condition.left, item, variables))
         [] condition.type = "UnaryCondition" ->
               Unary(evaluateCondition(condition.condition, item, variables))
         [] condition.type = "ComparisonCondition" ->
               evaluateComparison(condition, item, variables)
         [] OTHER -> Raise(<<"Unknown condition type", condition.type>>)

(***************************************************************************)
(* Executor: operations.  A context is [variables, currentContext]; an     *)
(* operation returns [err, value, context] or [err, message, context].     *)
(***************************************************************************)
Context(variables, currentContext) ==
    [variables |-> variables, currentContext |-> currentContext]

Return(v, context) == [err |-> FALSE, value |-> v, context |-> context]
Abort(message, context) == [err |-> TRUE, message |-> message, context |-> context]

RECURSIVE FilterRows(_, _, _, _)
\* result.filter(item => evaluateCondition(conditions, item, context)) from row i
FilterRows(rows, i, conditions, variables) ==
    LET Kept(keep, rest) ==
            IF rest.err THEN rest
            ELSE Value(IF keep.value THEN <<rows[i]>> \o rest.value ELSE rest.value)
        Row(keep) ==
            IF keep.err THEN keep
            ELSE Kept(keep, FilterRows(rows, i + 1, conditions, variables))
    IN IF i > Len(rows) THEN Value(<<>>)
       ELSE Row(evaluateCondition(conditions, rows[i], variables))

\* the value SELECT keeps of a field: primitives as they are, the rest as text
Primitive(value) ==
    IF value.t \in {"null", "str", "num", "bool", "nan", "inf"} THEN value
    ELSE IF value.t \in {"arr", "obj"} THEN JsonString(value)
    ELSE ToText(value)

\* the projection of one row on the fields of a SELECT
ProjectRow(fields, item) ==
    IF fields = Star THEN JsonString(item)
    ELSE IF Len(fields) = 1 THEN Primitive(Get(item, fields[1]))
    ELSE JsonString(Obj(fields, [f \in {fields[i] : i \in DOMAIN fields} |->
                                    Primitive(Get(item, f))]))

\* the rows executeSelect starts from: "let result: any[] = []"
SelectSource(context) == <<>>

executeSelect(operation, context) ==
    LET Projected(result) == Return(Arr(result), Context(context.variables, result))
        Filtered(filtered) ==
            IF filtered.err THEN Abort(filtered.message, Context(context.variables, <<>>))
            ELSE Projected([i \in DOMAIN filtered.value |->
                               ProjectRow(operation.fields, filtered.value[i])])
    IN Filtered(IF operation.conditions # NoConditions
                THEN FilterRows(SelectSource(context), 1, operation.conditions,
                                context.variables)
                ELSE Value(SelectSource(context)))

\* executeCount without "context.currentContext = originalContext" and with the
\* select run on the caller's context itself
executeCountOnCallersContext(operation, context) ==
    LET Counted(selectResult) ==
            IF selectResult.err THEN Abort(selectResult.message, selectResult.context)
            ELSE Return(Num(Len(selectResult.value.a)), selectResult.context)
    IN Counted(executeSelect(operation.selectOperation, context))

executeCount(operation, context) ==
    LET originalContext == context.currentContext
        Counted(selectResult) ==
            IF selectResult.err THEN Abort(selectResult.message, context)
            ELSE Return(Num(Len(selectResult.value.a)),
                        Context(context.variables, originalContext))
    IN Counted(executeSelect(operation.selectOperation,
                             Context(context.variables, originalContext)))

executePercentOf(operation, context) ==
    LET originalContext == context.currentContext
        contextCopy == Context(context.variables, originalContext)
        Percentage(numeratorResult, denominatorResult) ==
            IF numeratorResult.err \/ denominatorResult.err
            THEN Return(Num(0), context)
            ELSE IF Len(denominatorResult.value.a) = 0 THEN Return(Num(0), context)
            ELSE Return(JsMultiply(JsDivide(Num(Len(numeratorResult.value.a)),
                                            Num(Len(denominatorResult.value.a))),
                                   Num(100)),
                        Context(context.variables, originalContext))
    IN Percentage(executeSelect(operation.numerator, contextCopy),
                  executeSelect(operation.denominator, contextCopy))

\* Object.keys(item)
IndexKeys == <<"0", "1", "2", "3", "4", "5", "6", "7">>
Keys(item) ==
    IF item.t = "obj" THEN item.keys
    ELSE IF item.t = "arr" THEN SubSeq(IndexKeys, 1, Len(item.a))
    ELSE <<>>

\* item[key], array indices included
GetKey(item, key) ==
    IF item.t = "arr" /\ \E i \in DOMAIN item.a : IndexKeys[i] = key
    THEN item.a[CHOOSE i \in DOMAIN item.a : IndexKeys[i] = key]
    ELSE Get(item, key)

\* the elements an aggregate reduces: the elements themselves when the first
\* one is a primitive, the sole property of each when the first is an object
\* with one key; an object with another number of keys makes the caller throw
IsPrimitiveContext(currentContext) ==
    ~TypeofObject(currentContext[1]) \/ currentContext[1].t = "null"

HasSingleKey(currentContext) == Len(Keys(currentContext[1])) = 1

ContextValues(currentContext) ==
    IF IsPrimitiveContext(currentContext) THEN currentContext
    ELSE [i \in DOMAIN currentContext |->
             GetKey(currentContext[i], Keys(currentContext[1])[1])]

\* isNaN(n) ? 0 : n
ZeroIfNaN(n) == IF IsNaN(n) THEN Num(0) ELSE n

RECURSIVE SumFrom(_, _)
\* values.reduce((sum, value) => sum + (isNaN(Number(value)) ? 0 : Number(value)), 0)
SumFrom(values, i) ==
    IF i > Len(values) THEN Num(0)
    ELSE LET rest == SumFrom(values, i + 1)
             here == ZeroIfNaN(ToNumber(values[i]))
         IN IF here.t = "inf" \/ rest.t = "inf"
            THEN (IF here.t = "inf" /\ rest.t = "inf" /\ here # rest THEN NaN
                  ELSE IF here.t = "inf" THEN here ELSE rest)
            ELSE JsAdd(here, rest)

executeSum(context) ==
    LET currentContext == context.currentContext IN
    IF Len(currentContext) = 0 THEN Return(Num(0), context)
    ELSE IF IsPrimitiveContext(currentContext) \/ HasSingleKey(currentContext)
    THEN Return(SumFrom(ContextValues(currentContext), 1), context)
    ELSE Abort("Cannot sum objects with multiple properties", context)

executeAverage(context) ==
    LET currentContext == context.currentContext
        Averaged(sum) ==
            IF sum.err THEN sum
            ELSE Return(JsDivide(sum.value, Num(Len(currentContext))), context)
    IN IF Len(currentContext) = 0 THEN Return(Num(0), context)
       ELSE Averaged(executeSum(context))

\* the loop of executeMostFrequent without "if (value === null || value ===
\* undefined) continue": every value is counted
PresentOrNot(values) == values

\* the values of an aggregate that are neither null nor undefined
Present(values) == SelectSeq(values, LAMBDA v : v.t \notin {"null", "undef"})

RECURSIVE FirstSeen(_, _)
\* the positions of values whose String() is not that of an earlier value
FirstSeen(values, i) ==
    IF i > Len(values) THEN <<>>
    ELSE IF \E j \in 1..(i - 1) : ToText(values[j]) = ToText(values[i])
    THEN FirstSeen(values, i + 1)
    ELSE <<i>> \o FirstSeen(values, i + 1)

\* the count the frequency map holds for the value at position i
Frequency(values, i) ==
    Cardinality({j \in DOMAIN values : ToText(values[j]) = ToText(values[i])})

RECURSIVE MostFrequentFrom(_, _, _, _, _)
\* the loop over frequencies.values(): a strictly greater count replaces
MostFrequentFrom(values, entries, k, maxCount, mostFrequent) ==
    IF k > Len(entries) THEN mostFrequent
    ELSE IF Frequency(values, entries[k]) > maxCount
    THEN MostFrequentFrom(values, entries, k + 1, Frequency(values, entries[k]),
                          values[entries[k]])
    ELSE MostFrequentFrom(values, entries, k + 1, maxCount, mostFrequent)

executeMostFrequent(context) ==
    LET currentContext == context.currentContext IN
    IF Len(currentContext) = 0 THEN Return(Null, context)
    ELSE IF \E i \in DOMAIN currentContext :
               /\ TypeofObject(currentContext[i]) /\ currentContext[i].t # "null"
               /\ Len(Keys(currentContext[i])) # 1
    THEN Abort("Cannot find most frequent value of objects with multiple properties",
               context)
    ELSE LET values == Present([i \in DOMAIN currentContext |->
                          IF ~TypeofObject(currentContext[i]) \/ currentContext[i].t = "null"
                          THEN currentContext[i]
                          ELSE GetKey(currentContext[i], Keys(currentContext[i])[1])])
         IN IF Len(values) = 0 THEN Return(Null, context)
            ELSE Return(MostFrequentFrom(values, FirstSeen(values, 1), 1, 0, Null),
                        context)

\* currentContext.map(Number).filter(value => !isNaN(value)) on the elements or
\* on the sole property of each (the numbers of the model's data are finite)
NumericValues(currentContext) ==
    SelectSeq([i \in DOMAIN currentContext |->
                  ToNumber(ContextValues(currentContext)[i])],
              LAMBDA v : ~IsNaN(v))

\* executeMedian without its two "length === 0" returns: of no values it
\* computes (undefined + undefined) / 2
executeMedianUnguarded(context) ==
    LET currentContext == context.currentContext
        Sorted(values) == SortSeq(values, LAMBDA a, b : a.n * b.d < b.n * a.d)
        Middle(sorted, mid) ==
            IF Len(sorted) = 0 THEN NaN
            ELSE IF Len(sorted) % 2 = 0
            THEN JsDivide(JsAdd(sorted[mid], sorted[mid + 1]), Num(2))
            ELSE sorted[mid + 1]
        Median(values) == Middle(Sorted(values), Len(values) \div 2)
    IN IF Len(currentContext) = 0 THEN Return(Median(<<>>), context)
       ELSE IF IsPrimitiveContext(currentContext) \/ HasSingleKey(currentContext)
       THEN Return(Median(NumericValues(currentContext)), context)
       ELSE Abort("Cannot calculate median of objects with multiple properties", context)

executeMedian(context) ==
    LET currentContext == context.currentContext
        Sorted(values) == SortSeq(values, LAMBDA a, b : a.n * b.d < b.n * a.d)
        \* mid = Math.floor(length / 2), on the 1-based sorted values
        Middle(sorted, mid) ==
            IF Len(sorted) % 2 = 0
            THEN JsDivide(JsAdd(sorted[mid], sorted[mid + 1]), Num(2))
            ELSE sorted[mid + 1]
        Median(values) ==
            IF Len(values) = 0 THEN Num(0)
            ELSE Middle(Sorted(values), Len(values) \div 2)
    IN IF Len(currentContext) = 0 THEN Return(Num(0), context)
       ELSE IF IsPrimitiveContext(currentContext) \/ HasSingleKey(currentContext)
       THEN Return(Median(NumericValues(currentContext)), context)
       ELSE Abort("Cannot calculate median of objects with multiple properties", context)

executeMin(context) ==
    LET currentContext == context.currentContext
        \* Math.min(...values)
        Least(values) ==
            IF Len(values) = 0 THEN Num(0)
            ELSE CHOOSE v \in {values[i] : i \in DOMAIN values} :
                     \A i \in DOMAIN values : v.n * values[i].d <= values[i].n * v.d
    IN IF Len(currentContext) = 0 THEN Return(Num(0), context)
       ELSE IF IsPrimitiveContext(currentContext) \/ HasSingleKey(currentContext)
       THEN Return(Least(NumericValues(currentContext)), context)
       ELSE Abort("Cannot find minimum of objects with multiple properties", context)

executeMax(context) ==
    LET currentContext == context.currentContext
        \* Math.max(...values)
        Greatest(values) ==
            IF Len(values) = 0 THEN Num(0)
            ELSE CHOOSE v \in {values[i] : i \in DOMAIN values} :
                     \A i \in DOMAIN values : v.n * values[i].d >= values[i].n * v.d
    IN IF Len(currentContext) = 0 THEN Return(Num(0), context)
       ELSE IF IsPrimitiveContext(currentContext) \/ HasSingleKey(currentContext)
       THEN Return(Greatest(NumericValues(currentContext)), context)
       ELSE Abort("Cannot find maximum of objects with multiple properties", context)

executeLeastFrequent(context) ==
    LET currentContext == context.currentContext
        \* the loop over frequencies.values(): a strictly smaller count replaces,
        \* so the first entry that has the smallest count stays
        Least(values, entries) ==
            values[entries[
                CHOOSE k \in DOMAIN entries :
                    /\ \A j \in DOMAIN entries :
                          Frequency(values, entries[k]) <= Frequency(values, entries[j])
                    /\ \A j \in 1..(k - 1) :
                          Frequency(values, entries[j]) > Frequency(values, entries[k])]]
        Counted(values) ==
            IF Len(values) = 0 THEN Return(Null, context)
            ELSE Return(Least(values, FirstSeen(values, 1)), context)
    IN IF Len(currentContext) = 0 THEN Return(Null, context)
       ELSE IF \E i \in DOMAIN currentContext :
                  /\ TypeofObject(currentContext[i]) /\ currentContext[i].t # "null"
                  /\ Len(Keys(currentContext[i])) # 1
       THEN Abort("Cannot find least frequent value of objects with multiple properties",
                  context)
       ELSE Counted(Present([i \in DOMAIN currentContext |->
                       IF ~TypeofObject(currentContext[i]) \/ currentContext[i].t = "null"
                       THEN currentContext[i]
                       ELSE GetKey(currentContext[i], Keys(currentContext[i])[1])]))

executeUnique(context) ==
    LET currentContext == context.currentContext
        \* Array.from(new Set(values)): a primitive equal to an earlier one is
        \* dropped, an object or array is kept (each row is an object of its own)
        Distinct(values) ==
            LET numbered == [i \in DOMAIN values |-> [i |-> i, value |-> values[i]]]
                first == SelectSeq(numbered, LAMBDA e :
                             \/ e.value.t \in {"obj", "arr"}
                             \/ \A j \in 1..(e.i - 1) : values[j] # e.value)
            IN [k \in DOMAIN first |-> first[k].value]
    IN IF Len(currentContext) = 0 THEN Return(Arr(<<>>), context)
       ELSE IF IsPrimitiveContext(currentContext) \/ HasSingleKey(currentContext)
       THEN Return(Arr(Distinct(Present(ContextValues(currentContext)))), context)
       ELSE Abort("Cannot find unique values of objects with multiple properties", context)

executeVariance(context) ==
    LET currentContext == context.currentContext
        \* sum of (value - mean)^2 over the values, divided by length - 1
        Spread(values, mean) ==
            JsDivide(SumFrom([i \in DOMAIN values |->
                                 JsMultiply(JsSubtract(values[i], mean),
                                            JsSubtract(values[i], mean))], 1),
                     Num(Len(values) - 1))
        Variance(values) ==
            IF Len(values) <= 1 THEN Num(0)
            ELSE Spread(values, JsDivide(SumFrom(values, 1), Num(Len(values))))
    IN IF Len(currentContext) <= 1 THEN Return(Num(0), context)
       ELSE IF IsPrimitiveContext(currentContext) \/ HasSingleKey(currentContext)
       THEN Return(Variance(NumericValues(currentContext)), context)
       ELSE Abort("Cannot calculate variance of objects with multiple properties", context)

executeStandardDeviation(context) ==
    LET \* Math.sqrt: exact on the square of a fraction, kept as a root otherwise
        Sqrt(v) ==
            IF /\ v.n >= 0
               /\ \E k \in 0..v.n : k * k = v.n
               /\ \E k \in 1..v.d : k * k = v.d
            THEN Rat(CHOOSE k \in 0..v.n : k * k = v.n, CHOOSE k \in 1..v.d : k * k = v.d)
            ELSE [t |-> "sqrt", of |-> v]
        Root(variance) ==
            IF variance.err THEN variance ELSE Return(Sqrt(variance.value), context)
    IN Root(executeVariance(context))

executeRange(context) ==
    LET Difference(min, max) ==
            IF min.err THEN min
            ELSE IF max.err THEN max
            ELSE Return(JsSubtract(max.value, min.value), context)
    IN Difference(executeMin(context), executeMax(context))

\* executeDivide without its "if (divisor === 0) return 0"
executeDivideUnguarded(operation, context) ==
    LET dividend == getVariableValue(operation.dividend, context.variables)
        divisor == getVariableValue(operation.divisor, context.variables)
    IN IF dividend.err THEN Abort(dividend.message, context)
       ELSE IF divisor.err THEN Abort(divisor.message, context)
       ELSE Return(JsDivide(dividend.value, divisor.value), context)

executeDivide(operation, context) ==
    LET dividend == getVariableValue(operation.dividend, context.variables)
        divisor == getVariableValue(operation.divisor, context.variables)
    IN IF dividend.err THEN Abort(dividend.message, context)
       ELSE IF divisor.err THEN Abort(divisor.message, context)
       ELSE IF divisor.value = Num(0) THEN Return(Num(0), context)
       ELSE Return(JsDivide(dividend.value, divisor.value), context)

executeMultiply(operation, context) ==
    LET factor1 == getVariableValue(operation.factor1, context.variables)
        factor2 == getVariableValue(operation.factor2, context.variables)
    IN IF factor1.err THEN Abort(factor1.message, context)
       ELSE IF factor2.err THEN Abort(factor2.message, context)
       ELSE Return(JsMultiply(factor1.value, factor2.value), context)

executeSubtract(operation, context) ==
    LET minuend == getVariableValue(operation.minuend, context.variables)
        subtrahend == getVariableValue(operation.subtrahend, context.variables)
    IN IF minuend.err THEN Abort(minuend.message, context)
       ELSE IF subtrahend.err THEN Abort(subtrahend.message, context)
       ELSE Return(JsSubtract(minuend.value, subtrahend.value), context)

RECURSIVE executeOperation(_, _, _)
RECURSIVE executeVariableAssignment(_, _, _)

\* an operation may write this.variables too: [outcome, globals]
executeOperation(operation, context, globals) ==
    LET ty == operation.type
        plain(r) == [outcome |-> r, globals |-> globals]
    IN CASE ty = "SelectOperation" -> plain(executeSelect(operation, context))
         [] ty = "CountOperation" -> plain(executeCount(operation, context))
         [] ty = "SumOperation" -> plain(executeSum(context))
         [] ty = "DivideOperation" -> plain(executeDivide(operation, context))
         [] ty = "MultiplyOperation" -> plain(executeMultiply(operation, context))
         [] ty = "SubtractOperation" -> plain(executeSubtract(operation, context))
         [] ty = "AverageOperation" -> plain(executeAverage(context))
         [] ty = "PercentOfOperation" -> plain(executePercentOf(operation, context))
         [] ty = "MedianOperation" -> plain(executeMedian(context))
         [] ty = "MinOperation" -> plain(executeMin(context))
         [] ty = "MaxOperation" -> plain(executeMax(context))
         [] ty = "MostFrequentOperation" -> plain(executeMostFrequent(context))
         [] ty = "LeastFrequentOperation" -> plain(executeLeastFrequent(context))
         [] ty = "UniqueOperation" -> plain(executeUnique(context))
         [] ty = "StandardDeviationOperation" ->
              plain(executeStandardDeviation(context))
         [] ty = "VarianceOperation" -> plain(executeVariance(context))
         [] ty = "RangeOperation" -> plain(executeRange(context))
         [] ty = "VariableAssignment" ->
              executeVariableAssignment(operation, context, globals)
         [] OTHER -> plain(Abort(<<"Unknown operation type", ty>>, context))

\* executeVariableAssignment without its "return result"
executeVariableAssignmentWithoutReturn(operation, context, globals) ==
    LET Stored(inner, r) ==
            IF r.err THEN inner
            ELSE [outcome |->
                     Return(Undefined,
                            Context(MapSet(r.context.variables, operation.name, r.value),
                                    r.context.currentContext)),
                  globals |-> MapSet(inner.globals, operation.name, r.value)]
        Inner(inner) == Stored(inner, inner.outcome)
    IN Inner(executeOperation(operation.operation, context, globals))

\* executeVariableAssignment with the name entered into both maps before the
\* wrapped operation runs: a throw leaves the name behind, holding undefined
executeVariableAssignmentDeclaringFirst(operation, context, globals) ==
    LET Stored(inner, r) ==
            IF r.err
            THEN [outcome |->
                     Abort(r.message,
                           Context(MapSet(context.variables, operation.name, Undefined),
                                   r.context.currentContext)),
                  globals |-> MapSet(inner.globals, operation.name, Undefined)]
            ELSE [outcome |->
                     Return(r.value,
                            Context(MapSet(r.context.variables, operation.name, r.value),
                                    r.context.currentContext)),
                  globals |-> MapSet(inner.globals, operation.name, r.value)]
        Inner(inner) == Stored(inner, inner.outcome)
    IN Inner(executeOperation(operation.operation, context, globals))

\* executeVariableAssignment without "this.variables.set(operation.name, result)"
executeVariableAssignmentInContextOnly(operation, context, globals) ==
    LET Stored(inner, r) ==
            IF r.err THEN inner
            ELSE [outcome |->
                     Return(r.value,
                            Context(MapSet(r.context.variables, operation.name, r.value),
                                    r.context.currentContext)),
                  globals |-> inner.globals]
        Inner(inner) == Stored(inner, inner.outcome)
    IN Inner(executeOperation(operation.operation, context, globals))

executeVariableAssignment(operation, context, globals) ==
    LET Stored(inner, r) ==
            IF r.err THEN inner
            ELSE [outcome |->
                     Return(r.value,
                            Context(MapSet(r.context.variables, operation.name, r.value),
                                    r.context.currentContext)),
                  globals |-> MapSet(inner.globals, operation.name, r.value)]
        Inner(inner) == Stored(inner, inner.outcome)
    IN Inner(executeOperation(operation.operation, context, globals))

(***************************************************************************)
(* Executor: USE paths, query contexts and the result map                  *)
(***************************************************************************)
RECURSIVE Traverse(_, _, _)
\* the walk of resolveDataFromUsePaths along the parts of one path: it stops
\* at the first part the current object does not hold
Traverse(currentData, pathParts, i) ==
    IF i > Len(pathParts) THEN currentData
    ELSE IF Falsy(Get(currentData, pathParts[i])) THEN currentData
    ELSE Traverse(Get(currentData, pathParts[i]), pathParts, i + 1)

\* the object holding those of the fields that item defines
PickFields(item, fields) ==
    LET kept == SelectSeq(fields, LAMBDA f : Get(item, f) # Undefined)
    IN Obj(kept, [f \in {kept[i] : i \in DOMAIN kept} |-> Get(item, f)])

\* what one USE path adds to resolvedData
ResolveUsePath(data, usePath) ==
    LET currentData == Traverse(data, Split(usePath.path), 1) IN
    IF currentData.t = "arr"
    THEN IF usePath.hasFields
         THEN [i \in DOMAIN currentData.a |-> PickFields(currentData.a[i], usePath.fields)]
         ELSE currentData.a
    ELSE IF currentData.t = "obj"
    THEN IF usePath.hasFields THEN <<PickFields(currentData, usePath.fields)>>
         ELSE <<currentData>>
    ELSE <<>>

RECURSIVE ResolveFrom(_, _, _)
ResolveFrom(data, usePaths, i) ==
    IF i > Len(usePaths) THEN <<>>
    ELSE ResolveUsePath(data, usePaths[i]) \o ResolveFrom(data, usePaths, i + 1)

resolveDataFromUsePaths(data, usePaths) == ResolveFrom(data, usePaths, 1)

\* createContextForQuery with "variables: new Map()" in place of the clone
createContextForQueryWithNewMap(data, usePaths, globals) ==
    Context(EmptyMap, resolveDataFromUsePaths(data, usePaths))

\* the context of a query block: a clone of this.variables, the resolved data
createContextForQuery(data, usePaths, globals) ==
    Context(globals, resolveDataFromUsePaths(data, usePaths))

\* ast.usePaths.map((usePath) => usePath.path)
expectedObjects(ast) == [i \in DOMAIN ast.usePaths |-> ast.usePaths[i].path]

\* what createQuery(...).execute returns for one result of the executor
Sanitize(value) ==
    IF value.t \in {"null", "str", "num", "bool", "nan", "inf"} THEN value
    ELSE JsonString(value)

(***************************************************************************)
(* State                                                                   *)
(***************************************************************************)
VARIABLES
    tokens,       \* Parser.tokens
    data,         \* the data object handed to execute()
    pc,           \* "parse", "block", "parse_error", "ready", "query", "operation"
    current,      \* Parser.current (1-based)
    program,      \* the ProgramNode under construction, then the compiled query
    block,        \* name and operations of the query block being parsed
    error,        \* the error thrown by parse() or by the last execute()
    variables,    \* Executor.variables
    context,      \* the ExecutionContext of the running query block
    blockIndex,   \* the query block execute() is at
    opIndex,      \* the operation executeQueryBlock is at
    result,       \* the local result of executeQueryBlock
    results,      \* the local results of Executor.execute
    history,      \* what each finished execute() call returned or threw
    assigned,     \* history: the value last assigned to each variable in this execute()
    lastOp,       \* history: the operation executed last in this block
    before,       \* history: context.currentContext before that operation
    expected,     \* what the last expectedObjects() call returned
    call,         \* a direct call of one function of the library, with its arguments
    returned      \* what that call returned

vars == <<tokens, data, pc, current, program, block, error, variables, context,
          blockIndex, opIndex, result, results, history, assigned, lastOp, before,
          expected, call, returned>>

parserVars == <<current, program, block, expected, call, returned>>
executorVars == <<variables, context, blockIndex, opIndex, result, results,
                  history, assigned, lastOp, before>>

NoError == [message |-> ""]
NoBlock == [name |-> "", operations |-> <<>>]
NoOp == [type |-> "none"]

(***************************************************************************)
(* Inputs: query texts as the token sequences the tokenizer gives for      *)
(* them, and data trees                                                    *)
(***************************************************************************)
Use(name) == <<KW("USE"), Ident(name)>>
UseField(name, field) ==
    <<KW("USE"), Ident(name), KW("DOT"), KW("LEFT_BRACKET"), Ident(field),
      KW("RIGHT_BRACKET")>>
Query(name, body) == <<KW("QUERY"), Ident(name)>> \o body \o <<KW("RETURN")>>
Where(cond) == <<KW("WHERE"), KW("LEFT_PAREN")>> \o cond \o <<KW("RIGHT_PAREN")>>
Text(toks) == toks \o <<EOF>>

\* field specifications: *, one identifier, a bracketed list
FieldSpecs ==
    { <<KW("ASTERISK")>>,
      <<Ident("p")>>,
      <<KW("LEFT_BRACKET"), Ident("cat"), KW("COMMA"), Ident("p"), KW("RIGHT_BRACKET")>> }

CatIsA == <<Ident("cat"), KW("EQUALS"), StrLit("A")>>
PAbove5 == <<Ident("p"), KW("GREATER_THAN"), NumLit(<<"5">>)>>
CatIsAAndPAbove5 == CatIsA \o <<KW("AMPERSAND")>> \o PAbove5
Conds == {CatIsA, PAbove5, CatIsAAndPAbove5}

\* USE products / QUERY q / COUNT SELECT <fs> WHERE (<c>) / RETURN
CountText(fs, c) ==
    Text(Use("products") \o Query("q", <<KW("COUNT"), KW("SELECT")>> \o fs \o Where(c)))

\* USE products / QUERY q / PERCENT_OF SELECT <f1> WHERE (<c1>), SELECT <f2> WHERE (<c2>) / RETURN
PercentText(f1, c1, f2, c2) ==
    Text(Use("products") \o
         Query("q", <<KW("PERCENT_OF"), KW("SELECT")>> \o f1 \o Where(c1) \o
                    <<KW("COMMA"), KW("SELECT")>> \o f2 \o Where(c2)))

\* USE products / QUERY q / PERCENT_OF SELECT <f> WHERE (<c>) / RETURN
PercentOmittedText(f, c) ==
    Text(Use("products") \o
         Query("q", <<KW("PERCENT_OF"), KW("SELECT")>> \o f \o Where(c)))

\* USE products.[p] / QUERY q / $t SUM / $n AVERAGE / $a <operator> $t $n / RETURN
\* (for PERCENT_OF: $a PERCENT_OF SELECT, SELECT)
AssignText(operator) ==
    Text(UseField("products", "p") \o
         Query("q", <<Var("$t"), KW("SUM"), Var("$n"), KW("AVERAGE"), Var("$a")>> \o
                    (IF operator = "PERCENT_OF"
                     THEN <<KW("PERCENT_OF"), KW("SELECT"), KW("COMMA"), KW("SELECT")>>
                     ELSE <<KW(operator), Var("$t"), Var("$n")>>)))

\* USE products.[p] / QUERY q / $a SUM / COUNT SELECT WHERE (p > 5) / $b SUM / RETURN
CountThenSumText ==
    Text(UseField("products", "p") \o
         Query("q", <<Var("$a"), KW("SUM"), KW("COUNT"), KW("SELECT")>> \o Where(PAbove5) \o
                    <<Var("$b"), KW("SUM")>>))

\* USE products.[p] / QUERY q / $a SUM / PERCENT_OF SELECT WHERE (p > 5), SELECT / $b SUM / RETURN
PercentThenSumText ==
    Text(UseField("products", "p") \o
         Query("q", <<Var("$a"), KW("SUM"), KW("PERCENT_OF"), KW("SELECT")>> \o
                    Where(PAbove5) \o
                    <<KW("COMMA"), KW("SELECT"), Var("$b"), KW("SUM")>>))

\* the query texts of the model
Texts ==
    {CountText(fs, c) : fs \in FieldSpecs, c \in Conds}
    \cup {PercentText(f, c[1], f, c[2]) :
             f \in FieldSpecs, c \in {<<CatIsAAndPAbove5, CatIsA>>, <<PAbove5, CatIsA>>}}
    \cup {PercentOmittedText(f, c) : f \in FieldSpecs, c \in {CatIsA, PAbove5}}
    \cup {AssignText(o) : o \in ArithmeticTokens \cup {"PERCENT_OF"}}
    \cup {CountThenSumText, PercentThenSumText}
    \* USE products / QUERY q / SELECT <fs> / RETURN
    \cup {Text(Use("products") \o Query("q", <<KW("SELECT")>> \o fs)) : fs \in FieldSpecs}
    \* USE products / QUERY q / SELECT [cat, p] / <aggregate> / RETURN
    \cup {Text(Use("products") \o
                Query("q", <<KW("SELECT"), KW("LEFT_BRACKET"), Ident("cat"), KW("COMMA"),
                             Ident("p"), KW("RIGHT_BRACKET"), KW(a)>>)) :
             a \in AggregateTokens}
    \* USE products.[p] / QUERY q / <aggregate> / RETURN
    \cup {Text(UseField("products", "p") \o Query("q", <<KW(a)>>)) : a \in AggregateTokens}
    \* USE products.[p] / QUERY q / $t SUM / <operator> $t $q / RETURN
    \* USE products.[p] / QUERY q / $t SUM / <operator> $q $t / RETURN
    \cup {Text(UseField("products", "p") \o
                Query("q", <<Var("$t"), KW("SUM"), KW(o[1]), Var(o[2][1]), Var(o[2][2])>>)) :
             o \in ArithmeticTokens \X {<<"$t", "$q">>, <<"$q", "$t">>}}
    \* USE products / QUERY q / <SELECT p | COUNT SELECT> <rest> / RETURN, where
    \* <rest> is a clause that lacks a token
    \cup {Text(Use("products") \o Query("q", start \o rest)) :
             start \in {<<KW("SELECT"), Ident("p")>>,
                        <<KW("COUNT"), KW("SELECT")>>,
                        <<KW("COUNT"), KW("SELECT"), Ident("p")>>},
             rest \in {
               \* WHERE cat = "A"
               <<KW("WHERE")>> \o CatIsA,
               \* WHERE (cat = "A"
               <<KW("WHERE"), KW("LEFT_PAREN")>> \o CatIsA,
               \* WHERE (cat "A")
               <<KW("WHERE"), KW("LEFT_PAREN"), Ident("cat"), StrLit("A"),
                 KW("RIGHT_PAREN")>>,
               \* WHERE (cat = )
               <<KW("WHERE"), KW("LEFT_PAREN"), Ident("cat"), KW("EQUALS"),
                 KW("RIGHT_PAREN")>>,
               \* WHERE (= "A")
               <<KW("WHERE"), KW("LEFT_PAREN"), KW("EQUALS"), StrLit("A"),
                 KW("RIGHT_PAREN")>>,
               \* WHERE (p > $q)
               Where(<<Ident("p"), KW("GREATER_THAN"), Var("$q")>>)}}
    \cup {
      \* USE products / QUERY q / PERCENT_OF SELECT WHERE (p > $q), SELECT / RETURN
      Text(Use("products") \o
           Query("q", <<KW("PERCENT_OF"), KW("SELECT")>> \o
                      Where(<<Ident("p"), KW("GREATER_THAN"), Var("$q")>>) \o
                      <<KW("COMMA"), KW("SELECT")>>)),
      \* USE products / QUERY q / SELECT [cat, p / RETURN
      Text(Use("products") \o
           Query("q", <<KW("SELECT"), KW("LEFT_BRACKET"), Ident("cat"), KW("COMMA"),
                        Ident("p")>>)),
      \* USE products / QUERY q / SELECT [cat, ] / RETURN
      Text(Use("products") \o
           Query("q", <<KW("SELECT"), KW("LEFT_BRACKET"), Ident("cat"), KW("COMMA"),
                        KW("RIGHT_BRACKET")>>)),
      \* USE products.[p] / QUERY q / $t SUM / DIVIDE $t / RETURN
      Text(UseField("products", "p") \o
           Query("q", <<Var("$t"), KW("SUM"), KW("DIVIDE"), Var("$t")>>)),
      \* USE products.[p] / QUERY q / SUM / QUERY r / SUM / RETURN
      Text(UseField("products", "p") \o <<KW("QUERY"), Ident("q"), KW("SUM")>> \o
           Query("r", <<KW("SUM")>>)),
      \* USE products.[cat] / QUERY q / $a MOST_FREQUENT / $b SUM / DIVIDE $a $b / RETURN
      Text(UseField("products", "cat") \o
           Query("q", <<Var("$a"), KW("MOST_FREQUENT"), Var("$b"), KW("SUM"),
                        KW("DIVIDE"), Var("$a"), Var("$b")>>)),
      \* USE products.[cat] / QUERY q / $a UNIQUE / $b SUM / DIVIDE $a $b / RETURN
      Text(UseField("products", "cat") \o
           Query("q", <<Var("$a"), KW("UNIQUE"), Var("$b"), KW("SUM"),
                        KW("DIVIDE"), Var("$a"), Var("$b")>>)),
      \* USE products.[p] / QUERY q / $a SUM / $b SUBTRACT $a $a / DIVIDE $a $b / RETURN
      Text(UseField("products", "p") \o
           Query("q", <<Var("$a"), KW("SUM"), Var("$b"), KW("SUBTRACT"), Var("$a"),
                        Var("$a"), KW("DIVIDE"), Var("$a"), Var("$b")>>)),
      \* USE stores.[main, branch] / QUERY q / SELECT location / RETURN
      Text(<<KW("USE"), Ident("stores"), KW("DOT"), KW("LEFT_BRACKET"), Ident("main"),
             KW("COMMA"), Ident("branch"), KW("RIGHT_BRACKET")>> \o
           Query("q", <<KW("SELECT"), Ident("location")>>)),
      \* USE y2024.[w1, w2].O.plays / USE products / QUERY q / COUNT SELECT * / RETURN
      Text(<<KW("USE"), Ident("y2024"), KW("DOT"), KW("LEFT_BRACKET"), Ident("w1"),
             KW("COMMA"), Ident("w2"), KW("RIGHT_BRACKET"), KW("DOT"), Ident("O"),
             KW("DOT"), Ident("plays")>> \o Use("products") \o
           Query("q", <<KW("COUNT"), KW("SELECT"), KW("ASTERISK")>>)),
      \* USE items / QUERY q / MOST_FREQUENT / RETURN
      Text(Use("items") \o Query("q", <<KW("MOST_FREQUENT")>>)),
      \* USE products.missing / QUERY q / SUM / RETURN
      Text(<<KW("USE"), Ident("products"), KW("DOT"), Ident("missing")>> \o
           Query("q", <<KW("SUM")>>)),
      \* USE products.[p] / QUERY q / SUM / RETURN / QUERY q / AVERAGE / RETURN
      Text(UseField("products", "p") \o Query("q", <<KW("SUM")>>) \o
           Query("q", <<KW("AVERAGE")>>)),
      \* USE products.[p] / QUERY q / SUM / RETURN / QUERY r / MAX / RETURN /
      \* QUERY q / MIN / RETURN
      Text(UseField("products", "p") \o Query("q", <<KW("SUM")>>) \o
           Query("r", <<KW("MAX")>>) \o Query("q", <<KW("MIN")>>)),
      \* USE products / QUERY q / SELECT * / RETURN
      Text(Use("products") \o Query("q", <<KW("SELECT"), KW("ASTERISK")>>)),
      \* USE products / QUERY q / SELECT p WHERE (cat = "A") / $t SUM / RETURN
      Text(Use("products") \o
           Query("q", <<KW("SELECT"), Ident("p")>> \o Where(CatIsA) \o
                      <<Var("$t"), KW("SUM")>>)),
      \* USE products / QUERY c / SELECT cat / $m MOST_FREQUENT / RETURN
      Text(Use("products") \o
           Query("c", <<KW("SELECT"), Ident("cat"), Var("$m"), KW("MOST_FREQUENT")>>)),
      \* USE products.[cat] / QUERY c / $m MOST_FREQUENT / RETURN
      Text(UseField("products", "cat") \o Query("c", <<Var("$m"), KW("MOST_FREQUENT")>>)),
      \* USE products / QUERY avg / SELECT p / $t SUM / $n COUNT SELECT * /
      \* DIVIDE $t $n / RETURN
      Text(Use("products") \o
           Query("avg", <<KW("SELECT"), Ident("p"), Var("$t"), KW("SUM"), Var("$n"),
                          KW("COUNT"), KW("SELECT"), KW("ASTERISK"), KW("DIVIDE"),
                          Var("$t"), Var("$n")>>)),
      \* // c / USE products.[p] / QUERY one / $t SUM / RETURN $t
      \* QUERY two / $n AVERAGE / MULTIPLY $t $n / RETURN
      \* QUERY three / SUBTRACT $t $n / RETURN
      Text(<<Tok("COMMENT", "// c")>> \o UseField("products", "p") \o
           Query("one", <<Var("$t"), KW("SUM")>>) \o <<Var("$t")>> \o
           Query("two", <<Var("$n"), KW("AVERAGE"), KW("MULTIPLY"), Var("$t"),
                          Var("$n")>>) \o
           Query("three", <<KW("SUBTRACT"), Var("$t"), Var("$n")>>)),
      \* USE products.[p] / QUERY q / $t SUM / $t AVERAGE / $n COUNT SELECT /
      \* DIVIDE $t $n / RETURN / QUERY r / $n SUM / DIVIDE $n $t / RETURN
      Text(UseField("products", "p") \o
           Query("q", <<Var("$t"), KW("SUM"), Var("$t"), KW("AVERAGE"), Var("$n"),
                        KW("COUNT"), KW("SELECT"), KW("DIVIDE"), Var("$t"), Var("$n")>>) \o
           Query("r", <<Var("$n"), KW("SUM"), KW("DIVIDE"), Var("$n"), Var("$t")>>)),
      \* USE products / QUERY q / PERCENT_OF SELECT WHERE (cat = "A" & p > 5),
      \* SELECT WHERE (cat = "A") / RETURN
      Text(Use("products") \o
           Query("q", <<KW("PERCENT_OF"), KW("SELECT")>> \o Where(CatIsAAndPAbove5) \o
                      <<KW("COMMA"), KW("SELECT")>> \o Where(CatIsA))),
      \* USE products.[p] / QUERY q / $t SUM / RETURN / QUERY r / DIVIDE $t $q / RETURN
      Text(UseField("products", "p") \o Query("q", <<Var("$t"), KW("SUM")>>) \o
           Query("r", <<KW("DIVIDE"), Var("$t"), Var("$q")>>)),
      \* USE products.[p] / QUERY q / SUM / RETURN
      Text(UseField("products", "p") \o Query("q", <<KW("SUM")>>)),
      \* USE products / QUERY q / SELECT *            (no RETURN)
      Text(Use("products") \o <<KW("QUERY"), Ident("q"), KW("SELECT"), KW("ASTERISK")>>),
      \* USE products / QUERY q / SELECT p WHERE (cat = "A") / SELECT cat / RETURN
      Text(Use("products") \o
           Query("q", <<KW("SELECT"), Ident("p")>> \o Where(CatIsA) \o
                      <<KW("SELECT"), Ident("cat")>>)),
      \* USE products.[cat] / QUERY c / $l LEAST_FREQUENT / MOST_FREQUENT / RETURN
      Text(UseField("products", "cat") \o
           Query("c", <<Var("$l"), KW("LEAST_FREQUENT"), KW("MOST_FREQUENT")>>)),
      \* USE products / QUERY q / $t SUM / RETURN
      Text(Use("products") \o Query("q", <<Var("$t"), KW("SUM")>>)),
      \* USE products / QUERY q / $t COUNT SELECT / $t SUM / RETURN
      Text(Use("products") \o
           Query("q", <<Var("$t"), KW("COUNT"), KW("SELECT"), Var("$t"), KW("SUM")>>)),
      \* USE . products
      Text(<<KW("USE"), KW("DOT"), Ident("products")>>),
      \* QUERY RETURN
      Text(<<KW("QUERY"), KW("RETURN")>>) }

Product(cat, p) == Obj(<<"cat", "p">>, [cat |-> Str(cat), p |-> Num(p)])

Tree(rows) == Obj(<<"products">>, [products |-> Arr(rows)])

DataTrees ==
    { Tree(<<Product("A", 10), Product("A", 20), Product("B", 5)>>),
      Tree(<<Product("B", 20)>>),
      Tree(<<>>),
      \* { products: [ { cat: "B", p: "x" }, { cat: null, p: 5 },
      \*               { cat: null, p: 5 }, { cat: "A", p: 5 } ] }
      Tree(<<Obj(<<"cat", "p">>, [cat |-> Str("B"), p |-> Str("x")]),
             Obj(<<"cat", "p">>, [cat |-> Null, p |-> Num(5)]),
             Obj(<<"cat", "p">>, [cat |-> Null, p |-> Num(5)]),
             Product("A", 5)>>),
      \* { stores: { main: { location: "Downtown" }, branch: { location: "Suburb" } } }
      Obj(<<"stores">>,
          [stores |->
              Obj(<<"main", "branch">>,
                  [main |-> Obj(<<"location">>, [location |-> Str("Downtown")]),
                   branch |-> Obj(<<"location">>, [location |-> Str("Suburb")])])]) }

(***************************************************************************)
(* Parser.parse, one loop iteration per step                               *)
(***************************************************************************)
Init ==
    /\ tokens \in Texts
    /\ data \in DataTrees
    /\ pc = "parse"
    /\ current = 1
    /\ program = [type |-> "Program", usePaths |-> <<>>, queryBlocks |-> <<>>]
    /\ block = NoBlock
    /\ error = NoError
    /\ variables = EmptyMap
    /\ context = Context(EmptyMap, <<>>)
    /\ blockIndex = 0
    /\ opIndex = 0
    /\ result = Null
    /\ results = EmptyMap
    /\ history = <<>>
    /\ assigned = EmptyMap
    /\ lastOp = NoOp
    /\ before = <<>>
    /\ expected = <<>>
    /\ call = [fn |-> "createQuery"]
    /\ returned = [fn |-> "none"]

\* parse() throws: no program is returned
ParseThrows(r) ==
    /\ pc' = "parse_error"
    /\ error' = [line |-> r.line, message |-> r.message]
    /\ current' = r.cur
    /\ UNCHANGED <<program, block>>

ParseComment ==
    /\ pc = "parse" /\ ~IsAtEnd(tokens, current)
    /\ Check(tokens, current, "COMMENT")
    /\ current' = Advance(tokens, current)
    /\ UNCHANGED <<tokens, data, pc, program, block, error>>
    /\ UNCHANGED <<executorVars, expected, call, returned>>

ParseUse ==
    /\ pc = "parse" /\ Check(tokens, current, "USE")
    /\ LET r == parseUsePath(tokens, Advance(tokens, current)) IN
       IF r.err THEN ParseThrows(r)
       ELSE /\ program' = [program EXCEPT !.usePaths = Append(@, r.node)]
            /\ current' = r.cur
            /\ UNCHANGED <<pc, block, error>>
    /\ UNCHANGED <<tokens, data>>
    /\ UNCHANGED <<executorVars, expected, call, returned>>

\* QUERY and the query name: the start of parseQueryBlock
ParseQuery ==
    /\ pc = "parse" /\ Check(tokens, current, "QUERY")
    /\ LET r == Consume(tokens, Advance(tokens, current), "IDENTIFIER",
                        "Expected query name after QUERY") IN
       IF r.err THEN ParseThrows(r)
       ELSE /\ block' = [name |-> r.node.value, operations |-> <<>>]
            /\ current' = r.cur
            /\ pc' = "block"
            /\ UNCHANGED <<program, error>>
    /\ UNCHANGED <<tokens, data>>
    /\ UNCHANGED <<executorVars, expected, call, returned>>

\* the else branch of parse() without its this.advance()
ParseSkipInPlace ==
    /\ pc = "parse" /\ ~IsAtEnd(tokens, current)
    /\ ~(\E ty \in {"COMMENT", "USE", "QUERY"} : Check(tokens, current, ty))
    /\ UNCHANGED <<tokens, data, pc, current, program, block, error>>
    /\ UNCHANGED <<executorVars, expected, call, returned>>

ParseSkip ==
    /\ pc = "parse" /\ ~IsAtEnd(tokens, current)
    /\ ~(\E ty \in {"COMMENT", "USE", "QUERY"} : Check(tokens, current, ty))
    /\ current' = Advance(tokens, current)
    /\ UNCHANGED <<tokens, data, pc, program, block, error>>
    /\ UNCHANGED <<executorVars, expected, call, returned>>

\* the loop of parse() ends: the program is returned to createQuery
ParseDone ==
    /\ pc = "parse" /\ IsAtEnd(tokens, current)
    /\ pc' = "ready"
    /\ UNCHANGED <<tokens, data, current, program, block, error>>
    /\ UNCHANGED <<executorVars, expected, call, returned>>

\* the loop condition of parseQueryBlock
InBlockLoop ==
    /\ pc = "block"
    /\ ~Check(tokens, current, "RETURN")
    /\ ~Check(tokens, current, "QUERY")
    /\ ~IsAtEnd(tokens, current)

\* operations.push(<the sub-parser's node>)
PushOperation(r) ==
    /\ IF r.err THEN ParseThrows(r)
       ELSE /\ block' = [block EXCEPT !.operations = Append(@, r.node)]
            /\ current' = r.cur
            /\ UNCHANGED <<pc, program, error>>
    /\ UNCHANGED <<tokens, data>>
    /\ UNCHANGED <<executorVars, expected, call, returned>>

BlockVariableAssignment ==
    /\ InBlockLoop /\ Check(tokens, current, "VARIABLE")
    /\ PushOperation(parseVariableAssignment(tokens, current))

BlockSelect ==
    /\ InBlockLoop /\ Check(tokens, current, "SELECT")
    /\ PushOperation(parseSelectOperation(tokens, Advance(tokens, current)))

BlockCount ==
    /\ InBlockLoop /\ Check(tokens, current, "COUNT")
    /\ PushOperation(parseCountOperation(tokens, Advance(tokens, current)))

BlockPercentOf ==
    /\ InBlockLoop /\ Check(tokens, current, "PERCENT_OF")
    /\ PushOperation(parsePercentOfOperation(tokens, Advance(tokens, current)))

BlockAggregate ==
    /\ InBlockLoop
    /\ \E ty \in AggregateTokens :
          /\ Check(tokens, current, ty)
          /\ PushOperation(parseAggregateOperation(tokens, Advance(tokens, current), ty))

BlockArithmetic ==
    /\ InBlockLoop
    /\ \E ty \in ArithmeticTokens :
          /\ Check(tokens, current, ty)
          /\ PushOperation(parseArithmeticOperation(tokens, Advance(tokens, current), ty))

OperationTokens ==
    {"VARIABLE", "SELECT", "COUNT", "PERCENT_OF"} \cup AggregateTokens
        \cup ArithmeticTokens

BlockSkip ==
    /\ InBlockLoop
    /\ ~(\E ty \in OperationTokens : Check(tokens, current, ty))
    /\ current' = Advance(tokens, current)
    /\ UNCHANGED <<tokens, data, pc, program, block, error>>
    /\ UNCHANGED <<executorVars, expected, call, returned>>

\* the loop of parseQueryBlock ends: RETURN is consumed, the block is pushed
BlockReturn ==
    /\ pc = "block" /\ ~InBlockLoop
    /\ LET r == Consume(tokens, current, "RETURN",
                        "Expected RETURN at end of query block") IN
       IF r.err THEN ParseThrows(r)
       ELSE /\ program' = [program EXCEPT !.queryBlocks =
                              Append(@, [type |-> "QueryBlock", name |-> block.name,
                                         operations |-> block.operations])]
            /\ block' = NoBlock
            /\ current' = r.cur
            /\ pc' = "parse"
            /\ UNCHANGED error
    /\ UNCHANGED <<tokens, data>>
    /\ UNCHANGED <<executorVars, expected, call, returned>>

(***************************************************************************)
(* SSOQL.createQuery(...).execute and Executor.execute, one operation per  *)
(* step                                                                    *)
(***************************************************************************)
QueryBlocks == program.queryBlocks

\* execute(data) running on the Executor of the call before it
SameExecutor ==
    /\ pc = "ready" /\ Len(history) < MaxExecutions
    /\ results' = EmptyMap
    /\ blockIndex' = 1
    /\ opIndex' = 0
    /\ result' = Null
    /\ context' = Context(EmptyMap, <<>>)
    /\ assigned' = EmptyMap
    /\ lastOp' = NoOp
    /\ before' = <<>>
    /\ error' = NoError
    /\ pc' = "query"
    /\ UNCHANGED <<tokens, data, history, variables>>
    /\ UNCHANGED parserVars

\* execute(data) is called on the compiled query: new Executor(ast, data)
NewExecutor ==
    /\ pc = "ready" /\ Len(history) < MaxExecutions
    /\ variables' = EmptyMap
    /\ results' = EmptyMap
    /\ blockIndex' = 1
    /\ opIndex' = 0
    /\ result' = Null
    /\ context' = Context(EmptyMap, <<>>)
    /\ assigned' = EmptyMap
    /\ lastOp' = NoOp
    /\ before' = <<>>
    /\ error' = NoError
    /\ pc' = "query"
    /\ UNCHANGED <<tokens, data, history>>
    /\ UNCHANGED parserVars

\* the next query block: createContextForQuery, and the start of
\* executeQueryBlock
BeginBlock ==
    /\ pc = "query" /\ blockIndex <= Len(QueryBlocks)
    /\ context' = createContextForQuery(data, program.usePaths, variables)
    /\ result' = Null
    /\ opIndex' = 1
    /\ lastOp' = NoOp
    /\ before' = <<>>
    /\ pc' = "operation"
    /\ UNCHANGED <<tokens, data, error, variables, blockIndex, results, history, assigned>>
    /\ UNCHANGED parserVars

CurrentOperation == QueryBlocks[blockIndex].operations[opIndex]

AtOperation(types) ==
    /\ pc = "operation"
    /\ opIndex <= Len(QueryBlocks[blockIndex].operations)
    /\ CurrentOperation.type \in types

\* result = this.executeOperation(operation, context); an error leaves
\* execute() and createQuery(...).execute without a result map
Execute(operation) ==
    LET Finished(r) ==
            /\ context' = r.outcome.context
            /\ variables' = r.globals
            /\ IF r.outcome.err
               THEN /\ error' = [message |-> r.outcome.message]
                    /\ history' = Append(history, [threw |-> TRUE, results |-> EmptyMap])
                    /\ pc' = "ready"
                    /\ UNCHANGED <<result, opIndex, assigned>>
               ELSE /\ result' = r.outcome.value
                    /\ opIndex' = opIndex + 1
                    /\ assigned' = IF operation.type = "VariableAssignment"
                                   THEN MapSet(assigned, operation.name, r.outcome.value)
                                   ELSE assigned
                    /\ UNCHANGED <<error, history, pc>>
    IN /\ lastOp' = operation
       /\ before' = context.currentContext
       /\ Finished(executeOperation(operation, context, variables))
       /\ UNCHANGED <<tokens, data, blockIndex, results>>
       /\ UNCHANGED parserVars

ExecSelect == AtOperation({"SelectOperation"}) /\ Execute(CurrentOperation)

ExecCount == AtOperation({"CountOperation"}) /\ Execute(CurrentOperation)

ExecPercentOf == AtOperation({"PercentOfOperation"}) /\ Execute(CurrentOperation)

AggregateTypes == {AggregateNodeType(ty) : ty \in AggregateTokens}

ExecAggregate == AtOperation(AggregateTypes) /\ Execute(CurrentOperation)

ExecArithmetic ==
    /\ AtOperation({"DivideOperation", "MultiplyOperation", "SubtractOperation"})
    /\ Execute(CurrentOperation)

ExecVariableAssignment == AtOperation({"VariableAssignment"}) /\ Execute(CurrentOperation)

\* the end of a query block that keeps the value a name already has
EndBlockKeepingFirst ==
    /\ pc = "operation" /\ opIndex > Len(QueryBlocks[blockIndex].operations)
    /\ results' = IF QueryBlocks[blockIndex].name \in DOMAIN results THEN results
                  ELSE MapSet(results, QueryBlocks[blockIndex].name, result)
    /\ blockIndex' = blockIndex + 1
    /\ pc' = "query"
    /\ UNCHANGED <<tokens, data, error, variables, context, opIndex, result, history,
                   assigned, lastOp, before>>
    /\ UNCHANGED parserVars

\* executeQueryBlock returns: results[queryBlock.name] = result
EndBlock ==
    /\ pc = "operation" /\ opIndex > Len(QueryBlocks[blockIndex].operations)
    /\ results' = MapSet(results, QueryBlocks[blockIndex].name, result)
    /\ blockIndex' = blockIndex + 1
    /\ pc' = "query"
    /\ UNCHANGED <<tokens, data, error, variables, context, opIndex, result, history,
                   assigned, lastOp, before>>
    /\ UNCHANGED parserVars

\* Executor.execute returns results; createQuery(...).execute returns them sanitized
ReturnResults ==
    /\ pc = "query" /\ blockIndex > Len(QueryBlocks)
    /\ history' = Append(history,
                         [threw |-> FALSE,
                          results |-> [k \in DOMAIN results |-> Sanitize(results[k])]])
    /\ pc' = "ready"
    /\ UNCHANGED <<tokens, data, error, variables, context, blockIndex, opIndex, result,
                   results, assigned, lastOp, before>>
    /\ UNCHANGED parserVars

\* expectedObjects() is called on the compiled query
ExpectedObjects ==
    /\ pc = "ready"
    /\ expected' = expectedObjects(program)
    /\ UNCHANGED <<tokens, data, pc, current, program, block, error, call, returned>>
    /\ UNCHANGED executorVars

Next ==
    \/ ParseComment \/ ParseUse \/ ParseQuery \/ ParseSkip \/ ParseDone
    \/ BlockVariableAssignment \/ BlockSelect \/ BlockCount \/ BlockPercentOf
    \/ BlockAggregate \/ BlockArithmetic \/ BlockSkip \/ BlockReturn
    \/ NewExecutor \/ BeginBlock
    \/ ExecSelect \/ ExecCount \/ ExecPercentOf \/ ExecAggregate \/ ExecArithmetic
    \/ ExecVariableAssignment
    \/ EndBlock \/ ReturnResults \/ ExpectedObjects

Spec == Init /\ [][Next]_vars

(***************************************************************************)
(* Direct calls: the tokenizer on source texts, and the parsing and        *)
(* evaluation of WHERE conditions on records                               *)
(***************************************************************************)
MaxSourceLen == 3

\* the calls of the model: tokenize on every text of up to MaxSourceLen
\* characters and on some longer ones; a condition parsed and then
\* evaluated on one record
Calls ==
    {[fn |-> "tokenize", source |-> source] :
        source \in UNION {[1..n -> {"\"", "'", "a", "1", ".", " ", "\n", "$", "/", "!",
                                     "=", "#"}] : n \in 0..MaxSourceLen}
                     \cup { <<"U", "S", "E", " ", "p", ".", "q", "\n", "S", "U", "M">>,
                            <<"(", "p", ">", "=", "1", "0", ".", "5", ")", "/", "/", "c">>,
                            <<"S", "U", "M", "'", "a", "\n", "b">>,
                            <<"[", "a", ",", "b", "]", "*", "&", "|", "<", "=", "<", ">",
                              "\r", "\t">> }}
    \cup {[fn |-> "where", tokens |-> Text(condition), item |-> item] :
             condition \in
                 {t[1] \o t[2] \o t[3] \o t[4] \o t[5] :
                     t \in {<<>>, <<KW("NOT")>>, <<KW("LEFT_PAREN")>>,
                             <<KW("NOT"), KW("LEFT_PAREN")>>}
                         \X {CatIsA}
                         \X {<<>>, <<KW("AMPERSAND")>> \o PAbove5,
                                    <<KW("PIPE")>> \o PAbove5,
                                    <<KW("RIGHT_PAREN")>>,
                                    <<KW("AMPERSAND")>> \o PAbove5 \o <<KW("RIGHT_PAREN")>>,
                                    <<KW("PIPE")>> \o PAbove5 \o <<KW("RIGHT_PAREN")>>}
                         \X {<<>>, <<KW("AMPERSAND")>>, <<KW("PIPE")>>}
                         \X {<<>>, <<Ident("p"), KW("LESS_THAN"), NumLit(<<"2", "0">>)>>}},
             item \in {Product(cat, p) : cat \in {"A", "B"}, p \in {5, 10, 20}}}
    \cup {[fn |-> "where",
           tokens |-> Text(<<Ident("tags"), KW(operator), value>>), item |-> item] :
             operator \in {"CONTAINS", "NOT_CONTAINS"},
             value \in {StrLit("a"), StrLit("z"), StrLit("5"), NumLit(<<"5">>),
                        StrLit("null"), Tok("NULL", "null"), StrLit("true"),
                        Tok("BOOLEAN", "true")},
             item \in {Obj(<<"tags">>, [tags |-> tags]) :
                          tags \in {Arr(<<Str("a"), Str("b")>>), Arr(<<Num(5), Null>>),
                                    Arr(<<Bool(TRUE)>>), Arr(<<>>), Str("a"), Num(5),
                                    Null}}
                       \cup {Product("A", 5)}}

UnitInit ==
    /\ call \in Calls
    /\ returned = [fn |-> "none"]
    /\ tokens = <<EOF>>
    /\ data = Tree(<<>>)
    /\ pc = "call"
    /\ current = 1
    /\ program = [type |-> "Program", usePaths |-> <<>>, queryBlocks |-> <<>>]
    /\ block = NoBlock
    /\ error = NoError
    /\ variables = EmptyMap
    /\ context = Context(EmptyMap, <<>>)
    /\ blockIndex = 0
    /\ opIndex = 0
    /\ result = Null
    /\ results = EmptyMap
    /\ history = <<>>
    /\ assigned = EmptyMap
    /\ lastOp = NoOp
    /\ before = <<>>
    /\ expected = <<>>

\* tokenize() without its final push of the EOF token
TokenizeWithoutEOF ==
    /\ pc = "call" /\ call.fn = "tokenize"
    /\ returned' = [fn |-> "tokenize",
                    tokens |-> SubSeq(tokenize(call.source), 1,
                                      Len(tokenize(call.source)) - 1)]
    /\ pc' = "returned"
    /\ UNCHANGED <<tokens, data, current, program, block, error, expected, call>>
    /\ UNCHANGED executorVars

\* new Tokenizer(source).tokenize()
Tokenize ==
    /\ pc = "call" /\ call.fn = "tokenize"
    /\ returned' = [fn |-> "tokenize", tokens |-> tokenize(call.source)]
    /\ pc' = "returned"
    /\ UNCHANGED <<tokens, data, current, program, block, error, expected, call>>
    /\ UNCHANGED executorVars

\* parseCondition on the tokens of a condition, then evaluateCondition of
\* the tree on the record, as parseSelectOperation and executeSelect's filter
\* do for a WHERE clause
EvaluateWhere ==
    LET Evaluated(parsed, value) ==
            [fn |-> "where", parsed |-> parsed, value |-> value]
        Parsed(parsed) ==
            IF parsed.err THEN [fn |-> "where", parsed |-> parsed]
            ELSE Evaluated(parsed, evaluateCondition(parsed.node, call.item, EmptyMap))
    IN /\ pc = "call" /\ call.fn = "where"
       /\ returned' = Parsed(parseCondition(call.tokens, 1))
       /\ pc' = "returned"
       /\ UNCHANGED <<tokens, data, current, program, block, error, expected, call>>
       /\ UNCHANGED executorVars

UnitNext == Tokenize \/ EvaluateWhere

UnitSpec == UnitInit /\ [][UnitNext]_vars

(***************************************************************************)
(* new Parser(tokens).parse() alone, on any short token sequence           *)
(***************************************************************************)
MaxTokens == 3

\* the tokens the sequences are made of
TokenKinds ==
    {KW("USE"), KW("QUERY"), KW("RETURN"), KW("SELECT"), KW("COUNT"), KW("PERCENT_OF"),
     KW("SUM"), KW("DIVIDE"), KW("WHERE"), KW("DOT"), KW("LEFT_BRACKET"), Ident("q"),
     Var("$t"), Tok("COMMENT", "// c")}

ParseInit ==
    /\ tokens \in {Text(toks) : toks \in UNION {[1..n -> TokenKinds] : n \in 0..MaxTokens}}
    /\ data = Tree(<<>>)
    /\ pc = "parse"
    /\ current = 1
    /\ program = [type |-> "Program", usePaths |-> <<>>, queryBlocks |-> <<>>]
    /\ block = NoBlock
    /\ error = NoError
    /\ variables = EmptyMap
    /\ context = Context(EmptyMap, <<>>)
    /\ blockIndex = 0
    /\ opIndex = 0
    /\ result = Null
    /\ results = EmptyMap
    /\ history = <<>>
    /\ assigned = EmptyMap
    /\ lastOp = NoOp
    /\ before = <<>>
    /\ expected = <<>>
    /\ call = [fn |-> "parse"]
    /\ returned = [fn |-> "none"]

ParseNext ==
    \/ ParseComment \/ ParseUse \/ ParseQuery \/ ParseSkip \/ ParseDone
    \/ BlockVariableAssignment \/ BlockSelect \/ BlockCount \/ BlockPercentOf
    \/ BlockAggregate \/ BlockArithmetic \/ BlockSkip \/ BlockReturn

\* parse() is one synchronous call: its loops run on until they end or throw
ParseSpec == ParseInit /\ [][ParseNext]_vars /\ WF_vars(ParseNext)

(***************************************************************************)
(* Properties                                                              *)
(***************************************************************************)
\* the rows of a working set that satisfy the conditions of a select
MatchingRows(rows, select, vars_) ==
    IF select.conditions = NoConditions THEN rows
    ELSE FilterRows(rows, 1, select.conditions, vars_).value

\* the condition tree and the field list a piece of source text denotes
ConditionOf(c) == parseCondition(Text(c), 1).node
FieldsOf(fs) == parseSelectFields(Text(fs), 1).node

\* parse() has returned the program
Compiled == pc \in {"ready", "query", "operation"}

\* an execute() call has returned its result map and no other has started
Returned == pc = "ready" /\ history # <<>> /\ ~history[Len(history)].threw

\* the program is one USE path without field list and one block: SELECT * RETURN
SelectStarOnly ==
    /\ Len(program.usePaths) = 1
    /\ ~program.usePaths[1].hasFields
    /\ Len(program.queryBlocks) = 1
    /\ program.queryBlocks[1].operations = <<SelectNode(Star, NoConditions, FALSE)>>

\* C1: a query whose only operation is SELECT *, over a USE path that
\* resolves to a data array, returns exactly that array's elements: same
\* length, same order.
C1_SelectStarRoundTrip ==
    (Returned /\ SelectStarOnly) =>
        LET source == Traverse(data, Split(program.usePaths[1].path), 1) IN
        source.t = "arr" => results[program.queryBlocks[1].name] = Arr(source.a)

\* C2: COUNT SELECT <fieldSpec> WHERE (<cond>) parses to one Count operation
\* whose select carries <fieldSpec> and <cond>, nothing of the clause being
\* skipped or parsed as another operation, so that COUNT returns the number
\* of source records that satisfy <cond>.
C2_CountCarriesSelect ==
    \A fs \in FieldSpecs, c \in Conds :
        (tokens = CountText(fs, c) /\ Compiled) =>
            /\ program.queryBlocks[1].operations =
                 << [type |-> "CountOperation",
                     selectOperation |-> SelectNode(FieldsOf(fs), ConditionOf(c), FALSE)] >>
            /\ Returned =>
                 results["q"] =
                   Num(Len(MatchingRows(resolveDataFromUsePaths(data, program.usePaths),
                                        [conditions |-> ConditionOf(c)], EmptyMap)))

\* C3: PERCENT_OF SELECT <f1> WHERE (<c1>), SELECT <f2> WHERE (<c2>) parses
\* to exactly one PercentOf operation, numerator carrying <c1> and
\* denominator carrying <c2>; the comma and the second SELECT add no
\* operation to the block.
C3_PercentOfTakesBothSelects ==
    \A f \in FieldSpecs, c1 \in Conds, c2 \in Conds :
        (tokens = PercentText(f, c1, f, c2) /\ Compiled) =>
            LET ops == program.queryBlocks[1].operations IN
            /\ Len(ops) = 1
            /\ ops[1].type = "PercentOfOperation"
            /\ ops[1].numerator.conditions = ConditionOf(c1)
            /\ ops[1].denominator.conditions = ConditionOf(c2)

\* C4: when the second SELECT of a PERCENT_OF is omitted, the condition
\* stays on the numerator and the denominator is the default select:
\* fields * and no conditions.
C4_PercentOfDefaultDenominator ==
    \A f \in FieldSpecs, c \in Conds :
        (tokens = PercentOmittedText(f, c) /\ Compiled) =>
            LET ops == program.queryBlocks[1].operations IN
            /\ ops[1].type = "PercentOfOperation"
            /\ ops[1].numerator.conditions = ConditionOf(c)
            /\ ops[1].denominator.fields = Star
            /\ ops[1].denominator.conditions = NoConditions

\* the operation executed last returned normally and is of one of the types
Executed(types) == pc \in {"operation", "query"} /\ lastOp.type \in types

\* C5: PERCENT_OF returns 100 * |result(N)| / |result(D)|, each select
\* evaluated on its own copy of the working set, and 0 when result(D) is
\* empty.
C5_PercentOfValue ==
    Executed({"PercentOfOperation"}) =>
        LET n == MatchingRows(before, lastOp.numerator, context.variables)
            d == MatchingRows(before, lastOp.denominator, context.variables)
        IN result = IF Len(d) = 0 THEN Num(0) ELSE Rat(100 * Len(n), Len(d))

\* COUNT or PERCENT_OF, also as the operation a variable assignment wraps
IsCounting(operation) ==
    \/ operation.type \in {"CountOperation", "PercentOfOperation"}
    \/ /\ operation.type = "VariableAssignment"
       /\ operation.operation.type \in {"CountOperation", "PercentOfOperation"}

\* C6: COUNT and PERCENT_OF leave the caller's working set as it was, on
\* every path; an aggregate after them reduces the rows one before them
\* reduces.
C6_CountingKeepsWorkingSet ==
    /\ (lastOp # NoOp /\ IsCounting(lastOp)) => context.currentContext = before
    /\ (tokens \in {CountThenSumText, PercentThenSumText} /\ "$b" \in DOMAIN assigned)
          => assigned["$b"] = assigned["$a"]

C6_Witness ==
    /\ Executed({"CountOperation"})
    /\ Len(before) > 0
    /\ context.currentContext = before

\* C7: once $v is assigned, every later operation of the execution, in the
\* same block or a later one, reads the value assigned to $v last.
C7_VariablesAreGlobal ==
    pc = "operation" =>
        /\ \A v \in DOMAIN assigned :
              getVariableValue(v, context.variables) = Value(assigned[v])
        /\ lastOp.type = "DivideOperation" =>
              /\ {lastOp.dividend, lastOp.divisor} \subseteq DOMAIN assigned
              /\ result = IF assigned[lastOp.divisor] = Num(0) THEN Num(0)
                          ELSE JsDivide(assigned[lastOp.dividend], assigned[lastOp.divisor])
        /\ lastOp.type = "MultiplyOperation" =>
              /\ {lastOp.factor1, lastOp.factor2} \subseteq DOMAIN assigned
              /\ result = JsMultiply(assigned[lastOp.factor1], assigned[lastOp.factor2])
        /\ lastOp.type = "SubtractOperation" =>
              /\ {lastOp.minuend, lastOp.subtrahend} \subseteq DOMAIN assigned
              /\ result = JsSubtract(assigned[lastOp.minuend], assigned[lastOp.subtrahend])

\* a later block reads variables an earlier block assigned
C7_Witness ==
    /\ pc = "operation" /\ blockIndex = 3
    /\ lastOp.type = "SubtractOperation"
    /\ result = JsSubtract(assigned["$t"], assigned["$n"])
    /\ result # Num(0)

\* the program holds a variable assignment
HasAssignment ==
    \E i \in DOMAIN program.queryBlocks :
        \E j \in DOMAIN program.queryBlocks[i].operations :
            program.queryBlocks[i].operations[j].type = "VariableAssignment"

\* C8: the variable store lives for one execute() call: each call starts with
\* an empty store, only what the call itself assigned is resolved, and two
\* calls on the same data return the same result map.
C8_StorePerExecution ==
    /\ pc \in {"query", "operation"} =>
          /\ DOMAIN variables = DOMAIN assigned
          /\ DOMAIN context.variables \subseteq DOMAIN assigned
    /\ Len(history) >= 2 => history[2] = history[1]

\* a second call starts after a first call that assigned variables
C8_Witness ==
    /\ Len(history) = 1 /\ ~history[1].threw /\ HasAssignment
    /\ pc = "query" /\ blockIndex = 1
    /\ variables = EmptyMap

\* C9: $v <operation> accepts DIVIDE, MULTIPLY, SUBTRACT and PERCENT_OF as
\* the wrapped operation: the text parses to a VariableAssignment wrapping
\* it, and executing it stores the value in $v.
C9_AssignmentWrapsAnyOperation ==
    \A o \in ArithmeticTokens \cup {"PERCENT_OF"} :
        tokens = AssignText(o) =>
            /\ pc # "parse_error"
            /\ Compiled =>
                 LET ops == program.queryBlocks[1].operations IN
                 /\ Len(ops) = 3
                 /\ ops[3].type = "VariableAssignment"
                 /\ ops[3].name = "$a"
                 /\ ops[3].operation.type \in
                      {"DivideOperation", "MultiplyOperation", "SubtractOperation",
                       "PercentOfOperation"}
            /\ Returned => "$a" \in DOMAIN variables

AssignsAt(i) ==
    /\ tokens[i].type = "VARIABLE" /\ i < Len(tokens)
    /\ tokens[i + 1].type \in AssignableTokens \cup ArithmeticTokens \cup {"PERCENT_OF"}

\* the token at position i is a variable that DIVIDE, MULTIPLY, SUBTRACT or a
\* comparison reads
ReadsAt(i) ==
    /\ tokens[i].type = "VARIABLE" /\ i > 1
    /\ \/ tokens[i - 1].type \in ArithmeticTokens \cup ComparisonTokens
       \/ i > 2 /\ tokens[i - 2].type \in ArithmeticTokens
                /\ tokens[i - 1].type = "VARIABLE"

\* the query text reads a variable that no assignment before the read writes
ReadsUnwritten ==
    \E i \in DOMAIN tokens :
        /\ ReadsAt(i)
        /\ \A j \in 1..(i - 1) : ~(AssignsAt(j) /\ tokens[j].value = tokens[i].value)

\* C11: when a query reads a variable that no VariableAssignment has written
\* yet -- as an operand of DIVIDE, MULTIPLY or SUBTRACT, or as the value of a
\* WHERE comparison, also of a SELECT inside COUNT or PERCENT_OF -- every
\* execute() raises an error and returns no result map.
C11_UnwrittenVariableIsFatal ==
    (Compiled /\ ReadsUnwritten) => \A i \in DOMAIN history : history[i].threw

\* the operations of the query block being executed
Operations == QueryBlocks[blockIndex].operations

\* the operation executed last returned normally: it is an aggregate, and
\* the operation before it in the block is a SELECT of two or more fields
AggregatedMultiFieldSelect ==
    /\ pc = "operation" /\ opIndex > 2
    /\ lastOp.type \in AggregateTypes /\ Operations[opIndex - 1] = lastOp
    /\ Operations[opIndex - 2].type = "SelectOperation"
    /\ Operations[opIndex - 2].fields # Star
    /\ Len(Operations[opIndex - 2].fields) >= 2

\* C12: an aggregate operator executed right after a SELECT that projects two
\* or more fields never returns: it fails with an error that aborts the
\* program execution.
C12_AggregateOfMultiFieldSelectFails == ~AggregatedMultiFieldSelect

\* the operation executed last is DIVIDE $a $b, bare or assigned to a
\* variable, with $a bound and $b bound to the number 0
DividedByZero ==
    /\ lastOp.type \in {"DivideOperation", "VariableAssignment"}
    /\ LET divide == IF lastOp.type = "VariableAssignment" THEN lastOp.operation
                     ELSE lastOp
       IN /\ divide.type = "DivideOperation"
          /\ divide.dividend \in DOMAIN variables
          /\ divide.divisor \in DOMAIN variables
          /\ lastOp.type = "VariableAssignment" => lastOp.name # divide.divisor
          /\ variables[divide.divisor] = Num(0)

\* C13: DIVIDE $a $b returns 0 and does not throw whenever the value bound
\* to $b is 0, whatever value is bound to $a.
C13_DivideByZeroIsZero ==
    DividedByZero =>
        /\ result = Num(0)
        /\ error = NoError
        /\ pc = "ready" => ~history[Len(history)].threw

\* DIVIDE has run with a text as the dividend and 0 as the divisor
C13_Witness ==
    /\ DividedByZero /\ pc = "operation"
    /\ lastOp.type = "DivideOperation"
    /\ variables[lastOp.dividend].t = "str"

\* the operation that computes the value of op: op itself, or the operation
\* a variable assignment wraps
Computing(op) == IF op.type = "VariableAssignment" THEN op.operation ELSE op

\* what the operators return over an empty working set
EmptyValue(type) ==
    CASE type \in {"SumOperation", "CountOperation", "AverageOperation", "MedianOperation",
                   "MinOperation", "MaxOperation", "VarianceOperation", "RangeOperation"} ->
            Num(0)
      [] type = "UniqueOperation" -> Arr(<<>>)
      [] type \in {"MostFrequentOperation", "LeastFrequentOperation"} -> Null

\* the operation executed last is one of these operators, bare or assigned,
\* and the working set was empty when it started
RanOnEmpty(types) ==
    /\ lastOp # NoOp /\ before = <<>>
    /\ Computing(lastOp).type \in types

\* C14: over an empty working set SUM, COUNT, AVERAGE, MEDIAN, MIN, MAX,
\* VARIANCE and RANGE return 0, UNIQUE returns an empty list, MOST_FREQUENT
\* and LEAST_FREQUENT return null; none of them throws.
C14_EmptyWorkingSet ==
    RanOnEmpty({"SumOperation", "CountOperation", "AverageOperation", "MedianOperation",
                "MinOperation", "MaxOperation", "VarianceOperation", "RangeOperation",
                "UniqueOperation", "MostFrequentOperation", "LeastFrequentOperation"}) =>
        /\ error = NoError
        /\ result = EmptyValue(Computing(lastOp).type)

\* MEDIAN has run as the first operation of a block over data with no rows
C14_Witness ==
    /\ RanOnEmpty({"MedianOperation"}) /\ pc = "operation" /\ opIndex = 2
    /\ data = Tree(<<>>)

\* the USE declarations that have a bracket of two or more alternatives
AxisPaths == SelectSeq(program.usePaths, LAMBDA u : u.hasFields /\ Len(u.fields) >= 2)

\* the program has exactly one axis: the results mirror its alternatives
HasOneAxis == Compiled /\ Len(AxisPaths) = 1

\* C15: the result of every query of a program with axes is a nested map
\* mirroring the axes, with one leaf per combination of alternatives, reached
\* by the alternative names in axis order. For one axis: a map whose keys are
\* the alternatives in order; USE stores.[main, branch] with SELECT location
\* yields {main: "Downtown", branch: "Suburb"}.
C15_ResultMirrorsAxes ==
    (Returned /\ HasOneAxis) =>
        \A name \in DOMAIN history[Len(history)].results :
            LET leaves == history[Len(history)].results[name] IN
            /\ leaves.t = "obj"
            /\ leaves.keys = AxisPaths[1].fields
            /\ (/\ AxisPaths[1].path = <<"stores">>
                /\ Get(data, "stores") # Undefined
                /\ lastOp = SelectNode(<<"location">>, NoConditions, FALSE))
               => leaves = Obj(<<"main", "branch">>,
                               [main |-> Str("Downtown"), branch |-> Str("Suburb")])

\* the source text of a token
Lexeme(tok) ==
    CASE tok.type = "DOT" -> "."
      [] tok.type = "COMMA" -> ","
      [] tok.type = "LEFT_BRACKET" -> "["
      [] tok.type = "RIGHT_BRACKET" -> "]"
      [] OTHER -> tok.value

\* the positions of the USE keywords, in source order
UsePositions == SelectSeq([i \in DOMAIN tokens |-> i], LAMBDA i : tokens[i].type = "USE")

\* the pieces of the path written after the USE at position i: every token up
\* to the next declaration, query block, comment or the end of the text
DeclaredPath(i) ==
    LET end == CHOOSE j \in (i + 1)..Len(tokens) :
                   /\ tokens[j].type \in {"USE", "QUERY", "COMMENT", "EOF"}
                   /\ \A k \in (i + 1)..(j - 1) :
                          tokens[k].type \notin {"USE", "QUERY", "COMMENT", "EOF"}
    IN [k \in 1..(end - i - 1) |-> Lexeme(tokens[i + k])]

\* C16: expectedObjects() returns one entry per USE declaration, in source
\* order, each the full dotted path text of the declaration with bracketed
\* alternatives rendered verbatim.
C16_ExpectedObjectsAreFullPaths ==
    (pc = "ready" /\ expected # <<>>) =>
        expected = [n \in DOMAIN UsePositions |-> DeclaredPath(UsePositions[n])]

RECURSIVE Reaches(_, _, _)
\* every segment of the path, from the i-th on, is present below item
Reaches(item, pathParts, i) ==
    IF i > Len(pathParts) THEN TRUE
    ELSE IF Get(item, pathParts[i]) = Undefined THEN FALSE
    ELSE Reaches(Get(item, pathParts[i]), pathParts, i + 1)

\* every USE path of the program has a segment that the data tree lacks
AllPathsMissing ==
    /\ Compiled /\ program.usePaths # <<>>
    /\ \A i \in DOMAIN program.usePaths :
           ~Reaches(data, Split(program.usePaths[i].path), 1)

\* C17: a USE path with a segment absent from the data tree contributes
\* nothing, neither the root nor the prefix that was reached: a query block
\* of a program whose paths are all missing starts from an empty working
\* set, and execute() does not raise because of it.
C17_MissingPathIsEmpty ==
    AllPathsMissing =>
        /\ (pc = "operation" /\ opIndex = 1) => context.currentContext = <<>>
        /\ ~ReadsUnwritten => \A i \in DOMAIN history : ~history[i].threw

\* the number of tokens of a type in the query text
CountOf(type) == Cardinality({i \in DOMAIN tokens : tokens[i].type = type})

\* a QUERY block is not closed by RETURN: after its QUERY keyword the text
\* ends, or another QUERY comes, before any RETURN
BlockNotClosed ==
    \E i \in DOMAIN tokens :
        /\ tokens[i].type = "QUERY"
        /\ \E j \in (i + 1)..Len(tokens) :
               /\ tokens[j].type \in {"QUERY", "EOF"}
               /\ \A k \in (i + 1)..(j - 1) : tokens[k].type # "RETURN"

\* a token the grammar expects is absent: the "(" after WHERE, a ")" or "]"
\* for one that was opened, a field name in a list or before a comparison
\* operator, the comparison operator, the value after it, an operand of
\* DIVIDE, MULTIPLY or SUBTRACT
TokenAbsent ==
    \/ CountOf("LEFT_PAREN") > CountOf("RIGHT_PAREN")
    \/ CountOf("LEFT_BRACKET") > CountOf("RIGHT_BRACKET")
    \/ \E i \in 1..(Len(tokens) - 1) :
          LET type == tokens[i].type
              next == tokens[i + 1].type
          IN \/ type = "WHERE" /\ next # "LEFT_PAREN"
             \/ type = "COMMA" /\ next = "RIGHT_BRACKET"
             \/ type = "LEFT_PAREN" /\ next \in ComparisonTokens
             \/ /\ type = "IDENTIFIER" /\ i > 1 /\ tokens[i - 1].type = "LEFT_PAREN"
                /\ next \notin ComparisonTokens
             \/ /\ type \in ComparisonTokens
                /\ next \notin {"STRING", "NUMBER", "BOOLEAN", "NULL", "VARIABLE"}
             \/ /\ type \in ArithmeticTokens
                /\ \/ next # "VARIABLE"
                   \/ tokens[i + 2].type # "VARIABLE"

\* C18: when a QUERY block is not closed by RETURN, or an expected token is
\* absent, parsing fails with an error that carries the source line, and no
\* AST is returned: the text never becomes a compiled query.
C18_SyntaxErrorsAreFatal ==
    (BlockNotClosed \/ TokenAbsent) =>
        /\ ~Compiled
        /\ pc = "parse_error" =>
               /\ DOMAIN error = {"line", "message"}
               /\ error.line = tokens[current].line

\* what a SELECT of these fields keeps of one record
Projected(row, fields) ==
    IF fields = Star THEN row
    ELSE IF Len(fields) = 1 THEN Get(row, fields[1])
    ELSE Obj(fields, [f \in {fields[i] : i \in DOMAIN fields} |-> Get(row, f)])

\* execute() has returned, and the last operation of the last query block,
\* the one whose value is that block's result, is a SELECT
ReturnedSelect ==
    /\ Returned /\ ~ReadsUnwritten /\ QueryBlocks # <<>>
    /\ lastOp.type = "SelectOperation"
    /\ LET last == QueryBlocks[Len(QueryBlocks)].operations
       IN last # <<>> /\ last[Len(last)] = lastOp

\* C19: the value returned for a query that ends in a SELECT is a list, with
\* one element per record that satisfies the conditions: the field's value
\* for a single field, a map of exactly the requested fields for several
\* fields, the record unchanged for *; it is not one serialized string.
C19_SelectResultKeepsStructure ==
    ReturnedSelect =>
        LET value == history[Len(history)].results[QueryBlocks[Len(QueryBlocks)].name]
            rows == MatchingRows(before, lastOp, variables)
        IN /\ value.t = "arr"
           /\ Len(value.a) = Len(rows)
           /\ \A i \in DOMAIN rows : value.a[i] = Projected(rows[i], lastOp.fields)

\* the names of the first n query blocks
BlockNames(n) == {QueryBlocks[i].name : i \in 1..n}

\* C20: query blocks execute in source order, one after the other; the result
\* map holds one key per distinct name of the blocks that have finished;
\* the end of a block writes its value under its name, replacing the value an
\* earlier block of the same name left and no other, so that the map
\* execute() returns holds, for a name two blocks share, the later block's value.
C20_LastWriteWins ==
    /\ [](pc = "query" => DOMAIN results = BlockNames(blockIndex - 1))
    /\ [][blockIndex' # blockIndex =>
             \/ blockIndex' = 1 /\ results' = EmptyMap
             \/ /\ blockIndex' = blockIndex + 1
                /\ results'[QueryBlocks[blockIndex].name] = result
                /\ \A name \in DOMAIN results \ {QueryBlocks[blockIndex].name} :
                       results'[name] = results[name]]_vars
    /\ [](Returned =>
             /\ DOMAIN history[Len(history)].results = BlockNames(Len(QueryBlocks))
             /\ \A name \in DOMAIN results :
                    history[Len(history)].results[name] = Sanitize(results[name]))

\* QUERY q / SUM, QUERY r / MAX, QUERY q / MIN over prices 10, 20, 5 has
\* returned {q: 5, r: 20}: the MIN of the later block q, not the SUM 35
C20_Witness ==
    /\ Returned /\ Len(QueryBlocks) = 3
    /\ QueryBlocks[1].name = "q" /\ QueryBlocks[3].name = "q"
    /\ QueryBlocks[1].operations = <<[type |-> "SumOperation"]>>
    /\ data = Tree(<<Product("A", 10), Product("A", 20), Product("B", 5)>>)
    /\ history[Len(history)].results = MapSet(MapSet(EmptyMap, "q", Num(5)), "r", Num(20))

\* tokenize() has returned
Tokenized == pc = "returned" /\ call.fn = "tokenize"

\* the quote at position q of the source opens a string literal that is
\* never closed: no quote or comment before it could have swallowed it, and
\* the same quote does not occur after it
Unterminated(q) ==
    /\ call.source[q] \in {"\"", "'"}
    /\ \A i \in 1..(q - 1) : call.source[i] \notin {"\"", "'", "/"}
    /\ \A i \in (q + 1)..Len(call.source) : call.source[i] # call.source[q]

\* C21: the lexer returns, for every source text, a token sequence with
\* exactly one EOF token, its last element; an unterminated string literal
\* becomes one UNKNOWN token carrying the partial text, the last before EOF.
C21_TokensEndInOneEOF ==
    Tokenized =>
        LET toks == returned.tokens IN
        /\ Len(toks) >= 1
        /\ toks[Len(toks)].type = "EOF"
        /\ \A i \in 1..(Len(toks) - 1) : toks[i].type # "EOF"
        /\ \A q \in DOMAIN call.source :
               Unterminated(q) =>
                   /\ Len(toks) >= 2
                   /\ toks[Len(toks) - 1].type = "UNKNOWN"
                   /\ toks[Len(toks) - 1].value = SubSeq(call.source, q, Len(call.source))

\* a' has been lexed: the identifier, the unterminated string, EOF
C21_Witness ==
    /\ Tokenized /\ call.source = <<"a", "'", "1">>
    /\ Len(returned.tokens) = 3
    /\ returned.tokens[2].value = <<"'", "1">>

\* the first operation of the running block has just been executed, and it
\* is one of the operators that compute a value from the working set
FirstOperationIsAggregate ==
    /\ pc = "operation" /\ opIndex = 2 /\ lastOp # NoOp
    /\ Computing(lastOp).type \in
           {"SumOperation", "AverageOperation", "MedianOperation", "MinOperation",
            "MaxOperation", "VarianceOperation", "RangeOperation", "UniqueOperation",
            "MostFrequentOperation", "LeastFrequentOperation"}

\* C22: every query block starts with an empty working set: an aggregate
\* executed before any SELECT of the block sees no rows and returns its
\* empty-set value, whatever the USE declarations resolve to.
C22_BlockStartsEmpty ==
    FirstOperationIsAggregate =>
        /\ before = <<>>
        /\ error = NoError
        /\ result = EmptyValue(Computing(lastOp).type)

\* a SELECT, not wrapped in an assignment or a COUNT, has just been executed
SelectExecuted ==
    /\ pc = "operation" /\ lastOp # NoOp /\ ~ReadsUnwritten
    /\ lastOp.type = "SelectOperation"

\* C23: every SELECT replaces the working set: after a SELECT the working set
\* is that SELECT's own result over the rows the USE declarations bind -- the
\* projection of the rows that satisfy its conditions -- whatever the
\* operations before it left; a second SELECT is not filtered by the first.
C23_SelectReplacesWorkingSet ==
    SelectExecuted =>
        LET rows == MatchingRows(resolveDataFromUsePaths(data, program.usePaths),
                                 lastOp, variables)
        IN context.currentContext =
               [i \in DOMAIN rows |-> Projected(rows[i], lastOp.fields)]

\* the working set with every element that Number() does not turn into a
\* number replaced by the number 0
Zeroed(currentContext) ==
    [i \in DOMAIN currentContext |->
        IF IsPrimitiveContext(currentContext)
        THEN ZeroIfNaN(ToNumber(currentContext[i]))
        ELSE Obj(Keys(currentContext[1]),
                 [k \in {Keys(currentContext[1])[1]} |->
                     ZeroIfNaN(ToNumber(ContextValues(currentContext)[i]))])]

\* one of the numeric operators has just run, bare or assigned, over a
\* working set of primitives or of one-property records
NumericOperatorRan ==
    /\ pc = "operation" /\ lastOp # NoOp /\ before # <<>>
    /\ Computing(lastOp).type \in
           {"SumOperation", "AverageOperation", "MedianOperation", "MinOperation",
            "MaxOperation", "VarianceOperation", "RangeOperation"}
    /\ IsPrimitiveContext(before) \/ HasSingleKey(before)

\* C24: numeric coercion is uniform: for SUM, AVERAGE, MEDIAN, MIN, MAX,
\* VARIANCE and RANGE a non-numeric element of the working set counts as the
\* number 0 and is not dropped -- the operator returns what it returns over
\* the working set with these elements replaced by 0.
C24_NonNumericCountsAsZero ==
    NumericOperatorRan =>
        result = executeOperation(Computing(lastOp),
                                  Context(context.variables, Zeroed(before)),
                                  variables).outcome.value

\* MOST_FREQUENT or LEAST_FREQUENT has just run, bare or assigned, over a
\* working set of primitives and one-property records, and has returned
FrequencyOperatorRan(type) ==
    /\ pc = "operation" /\ lastOp # NoOp /\ error = NoError
    /\ Computing(lastOp).type = type
    /\ \A i \in DOMAIN before :
           TypeofObject(before[i]) /\ before[i].t # "null" => Len(Keys(before[i])) = 1

\* the value each element of that working set stands for
Occurring ==
    [i \in DOMAIN before |->
        IF TypeofObject(before[i]) /\ before[i].t # "null"
        THEN GetKey(before[i], Keys(before[i])[1])
        ELSE before[i]]

\* the positions that hold a value, and how often the value at i occurs
Counted == {i \in DOMAIN before : Occurring[i].t \notin {"null", "undef"}}
Occurrences(i) == Cardinality({j \in Counted : Occurring[j] = Occurring[i]})

\* the result is the value at a counted position whose count is extreme in
\* the given order, and no value with that count occurs before it
ExtremeAndFirst(Beyond(_, _)) ==
    IF Counted = {} THEN result = Null
    ELSE \E i \in Counted :
            /\ result = Occurring[i]
            /\ \A j \in Counted : ~Beyond(Occurrences(j), Occurrences(i))
            /\ \A j \in Counted :
                   Occurrences(j) = Occurrences(i) /\ Occurring[j] # Occurring[i] =>
                       \E k \in 1..(j - 1) : Occurring[k] = Occurring[i]

ContainsEvaluated ==
    /\ pc = "returned" /\ call.fn = "where"
    /\ call.tokens[2].type \in {"CONTAINS", "NOT_CONTAINS"}
    /\ ~returned.parsed.err /\ ~returned.value.err

\* the truth value the condition must have when `holds` says whether the
\* field has a matching element
ContainsIs(holds) ==
    returned.value.value =
        IF returned.parsed.node.operator = "CONTAINS" THEN holds ELSE ~holds

\* C26: `field CONTAINS v` is true exactly when the field holds an array with
\* an element whose text String(element) is the text String(v), and `field
\* NOT_CONTAINS v` is its negation; on a field that holds no array, or that
\* the record lacks, CONTAINS is false and NOT_CONTAINS true.
C26_ContainsByText ==
    ContainsEvaluated =>
        LET field == Get(call.item, returned.parsed.node.field)
            v == returned.parsed.node.value
        IN ContainsIs(/\ field.t = "arr"
                      /\ \E i \in DOMAIN field.a : ToText(field.a[i]) = ToText(v))

\* C26 as stated: `field CONTAINS v` is true exactly when the field holds an
\* array with an element equal to v (equal as the operator `=` compares), and
\* NOT_CONTAINS is its negation.
C26_ContainsEqualElement ==
    ContainsEvaluated =>
        LET field == Get(call.item, returned.parsed.node.field)
            v == returned.parsed.node.value
        IN ContainsIs(/\ field.t = "arr"
                      /\ \E i \in DOMAIN field.a : LooseEquals(field.a[i], v))

\* tags NOT_CONTAINS "a" has been evaluated to true on a record whose tags
\* field is the text "a", not an array
C26_Witness ==
    /\ ContainsEvaluated
    /\ returned.parsed.node.operator = "NOT_CONTAINS"
    /\ returned.parsed.node.value = Str("a")
    /\ Get(call.item, "tags") = Str("a")
    /\ returned.value.value = TRUE

\* the condition trees of the parser
Comparison(field, operator, value) ==
    [type |-> "ComparisonCondition", field |-> field, operator |-> operator,
     value |-> value]
Binary(operator, left, right) ==
    [type |-> "BinaryCondition", operator |-> operator, left |-> left, right |-> right]
Negation(condition) ==
    [type |-> "UnaryCondition", operator |-> "!", condition |-> condition]

\* a condition written with up to three comparisons, a = (cat = "A"),
\* b = (p > 5), c = (p < 20):   [!] [(] a [op1 b] [)] [op2 c]
\* where op1 and op2 are "&", "|" or "" for a part that is not written
PBelow20 == <<Ident("p"), KW("LESS_THAN"), NumLit(<<"2", "0">>)>>

Connective(op) == IF op = "&" THEN <<KW("AMPERSAND")>> ELSE <<KW("PIPE")>>

Written(negated, grouped, op1, op2) ==
    Text((IF negated THEN <<KW("NOT")>> ELSE <<>>)
         \o (IF grouped THEN <<KW("LEFT_PAREN")>> ELSE <<>>)
         \o CatIsA
         \o (IF op1 = "" THEN <<>> ELSE Connective(op1) \o PAbove5)
         \o (IF grouped THEN <<KW("RIGHT_PAREN")>> ELSE <<>>)
         \o (IF op2 = "" THEN <<>> ELSE Connective(op2) \o PBelow20))

\* the grouping the precedence rules give that condition: `!` binds to the
\* comparison or the parenthesis that follows it, `&` binds tighter than `|`,
\* equal operators group to the left
Grouping(negated, grouped, op1, op2) ==
    LET a == Comparison("cat", "=", Str("A"))
        b == Comparison("p", ">", Num(5))
        c == Comparison("p", "<", Num(20))
        Maybe(x) == IF negated THEN Negation(x) ELSE x
        Then(x) == IF op2 = "" THEN x ELSE Binary(op2, x, c)
    IN IF grouped THEN Then(Maybe(IF op1 = "" THEN a ELSE Binary(op1, a, b)))
       ELSE IF op1 = "" THEN Then(Maybe(a))
       ELSE IF op1 = "|" /\ op2 = "&" THEN Binary("|", Maybe(a), Binary("&", b, c))
       ELSE Then(Binary(op1, Maybe(a), b))

RECURSIVE Holds(_, _)
\* the boolean value of a grouping on a record with a category and a price
Holds(condition, item) ==
    CASE condition.type = "UnaryCondition" -> ~Holds(condition.condition, item)
      [] condition.type = "BinaryCondition" /\ condition.operator = "&" ->
            Holds(condition.left, item) /\ Holds(condition.right, item)
      [] condition.type = "BinaryCondition" /\ condition.operator = "|" ->
            Holds(condition.left, item) \/ Holds(condition.right, item)
      [] condition.field = "cat" -> item.o.cat = condition.value
      [] condition.operator = ">" -> item.o.p.n > condition.value.n
      [] condition.operator = "<" -> item.o.p.n < condition.value.n

\* C27: WHERE conditions parse with `!` over `&` over `|`, both binary
\* operators left-associative and parentheses overriding -- a | b & c becomes
\* OR(a, AND(b, c)), !a & b becomes AND(NOT(a), b) -- and the tree evaluated
\* on a record has the boolean value of that grouping.
C27_ConditionPrecedence ==
    \A negated, grouped \in BOOLEAN, op1, op2 \in {"", "&", "|"} :
        pc = "returned" /\ call.fn = "where"
            /\ call.tokens = Written(negated, grouped, op1, op2) =>
                /\ ~returned.parsed.err
                /\ returned.parsed.cur = Len(call.tokens)
                /\ returned.parsed.node = Grouping(negated, grouped, op1, op2)
                /\ returned.value = Value(Holds(returned.parsed.node, call.item))

\* cat = "A" | p > 5 & p < 20 has been evaluated on the record {cat: "A",
\* p: 20}: the tree is OR(a, AND(b, c)) and its value is true, where the
\* grouping from the left, AND(OR(a, b), c), is false
C27_Witness ==
    /\ pc = "returned" /\ call.fn = "where"
    /\ call.tokens = Written(FALSE, FALSE, "|", "&")
    /\ call.item = Product("A", 20)
    /\ returned.parsed.node.operator = "|"
    /\ returned.parsed.node.right.operator = "&"
    /\ returned.value = Value(TRUE)

\* parse() is running: in its top-level loop or in the loop of a query block
Parsing == pc \in {"parse", "block"}

C29_ContextStoreIsGlobalStore ==
    pc = "operation" =>
        /\ context.variables = variables
        /\ lastOp.type = "VariableAssignment" =>
              /\ lastOp.name \in DOMAIN variables
              /\ variables[lastOp.name] = result
        /\ opIndex > 1 /\ lastOp.type \in {"CountOperation", "PercentOfOperation"} =>
              DOMAIN variables = DOMAIN assigned

\* in a second query block, after a COUNT was assigned to $n, the two maps
\* hold $t, written by the first block, and $n
C29_Witness ==
    /\ pc = "operation" /\ blockIndex = 2
    /\ lastOp.type = "VariableAssignment" /\ lastOp.name = "$n"
    /\ DOMAIN context.variables = {"$t", "$n"}
    /\ context.variables = variables

\* C30: a variable assignment whose wrapped operation throws leaves the
\* variable store as it was: the name is neither created nor overwritten, in
\* the block's map or in the global map.
C30_FailedAssignmentWritesNothing ==
    [][pc = "operation" /\ error' # NoError /\ lastOp'.type = "VariableAssignment" =>
           /\ variables' = variables
           /\ context'.variables = context.variables]_vars

\* $t SUM has thrown on records of two properties after $t COUNT SELECT had
\* stored 0: $t still holds 0
C30_Witness ==
    /\ pc = "ready" /\ error # NoError
    /\ lastOp.type = "VariableAssignment" /\ lastOp.name = "$t"
    /\ lastOp.operation.type = "SumOperation"
    /\ DOMAIN variables = {"$t"} /\ variables["$t"] = Num(0)
    /\ context.variables = variables

====
